---- MODULE Spec2Model ----
(***************************************************************************)
(* Supply-chain digital twin: the agents of src/src/agents (mining,        *)
(* processing, manufacturing, distribution, retail) and the orchestrator   *)
(* that routes material between them.                                      *)
(*                                                                         *)
(* Quantities are whole tons/units.  Percentages (conversion ratios,       *)
(* equipment efficiency, quality targets, output variability) are kept as  *)
(* integer percents, so a product of k percentages is a value in units of  *)
(* 100^-k; the scale of every such field is stated where it is defined.    *)
(* The wall clock (datetime.now()) is the variable now, in whole hours.    *)
(***************************************************************************)
EXTENDS Integers, Sequences, FiniteSets, TLC

\* ------------------------------------------------------------------ bounds
MaxTime == 2
\* enqueues accepted per agent while the job engine is driven
MaxJobs == 3
\* enqueues accepted per agent while only intake and enqueue are driven
MaxReservations == 2
\* shipping orders accepted while only ordering and dispatch are driven
MaxOrders == 11
\* shipping orders accepted while deliveries are driven too
MaxDeliveries == 2
\* units the distribution warehouse is handed in total
MaxStock == 12
\* customer orders accepted by the retail store
MaxSales == 2
\* shipping orders accepted while a backlog of orders is built up
MaxBacklog == 12

\* ----------------------------------------------------------- configuration
NoTime == -1

ProcIds == {"PROC_001", "PROC_002"}
\* the plant driven directly when a single agent is exercised
DrivenProcIds == {"PROC_001"}

OreTypes == {"Phosphorite Ore", "Iron Ore"}

\* ProcessingAgent("PROC_001", ..., processing_capacity, methods, recipes)
processing_capacity == 8
processing_methods == <<"chemical_processing", "granulation">>

RecipeNames == {"Phosphorite_to_PG", "Phosphorite_to_DAP", "Iron_to_Steel"}
\* Python dicts keep insertion order: list(recipes.keys())
RecipeOrder == <<"Phosphorite_to_PG", "Phosphorite_to_DAP", "Iron_to_Steel">>

\* conversion_ratio in percent, processing_time_hours in hours
transformation_recipes ==
  [r \in RecipeNames |->
     CASE r = "Phosphorite_to_PG" ->
            [input_material |-> "Phosphorite Ore", output_material |-> "PG",
             conversion_ratio |-> 82, processing_time_hours |-> 1,
             energy_cost_per_ton |-> 40, required_method |-> "chemical_processing"]
       [] r = "Phosphorite_to_DAP" ->
            [input_material |-> "Phosphorite Ore", output_material |-> "DAP",
             conversion_ratio |-> 50, processing_time_hours |-> 2,
             energy_cost_per_ton |-> 55, required_method |-> "granulation"]
       [] r = "Iron_to_Steel" ->
            [input_material |-> "Iron Ore", output_material |-> "Steel Billet",
             conversion_ratio |-> 75, processing_time_hours |-> 2,
             energy_cost_per_ton |-> 65, required_method |-> "smelting"]]

\* ores a shipment may carry; the plant has no recipe for "Copper Ore" and
\* no smelting equipment for "Iron_to_Steel"
RawMaterials == OreTypes \cup {"Copper Ore"}
ProcessedMaterials == {transformation_recipes[r].output_material : r \in RecipeNames}

\* self.raw_storage_capacity = self.capacity * 0.75
raw_storage_capacity == (processing_capacity * 75) \div 100

VARIABLES
  scenario,                   \* which part of the system the caller drives
  now,                        \* datetime.now(), in hours
  last_call,                  \* the last call made and what it returned
  \* ProcessingAgent, per agent_id
  created,                    \* jobs created so far (orders created_at)
  equipment_efficiency,
  raw_material_storage,
  processed_material_storage,
  processing_queue,
  active_processing_jobs,
  processing_history,
  \* ManufacturingAgent
  mfg_created,                \* jobs created so far (orders created_at)
  production_line_efficiency,
  raw_material_inventory,
  finished_goods_inventory,
  production_queue,
  active_production_jobs,
  production_history,
  pending_product_shipments,
  \* MiningAgent
  inventory,
  ore_reserves,
  pending_shipments,
  shipped_materials,
  \* DistributionAgent
  current_inventory,
  dist_pending_shipments,     \* DistributionAgent.pending_shipments
  active_shipments,
  shipment_history,
  total_shipments,
  on_time_deliveries,
  \* RetailAgent
  product_inventory,
  product_prices,             \* the products that have a price
  active_orders,
  sales_history,
  retail_orders,              \* customer orders accepted so far
  \* SupplyChainOrchestrator
  mining_agents,              \* ids of the registered mining agents
  processing_agents,          \* ids of the registered processing agents
  routing_rules,              \* routing_rules["ore_to_processing"]
  material_traces,
  pending_operator_requests,
  manufacturing_agents,       \* ids of the registered manufacturing agents
  processed_to_manufacturing, \* routing_rules["processed_to_manufacturing"]
  \* SupplyChainSimulator
  operator_requests,          \* the requests raised, in order
  raw_storage,                \* agents['processing']['raw_storage'], a dict
  processed_storage,          \* agents['processing']['processed_storage']
  inputs_accepted             \* how many operator inputs passed validation

proc_vars == <<created, equipment_efficiency, raw_material_storage,
               processed_material_storage, processing_queue,
               active_processing_jobs, processing_history>>

mfg_vars == <<mfg_created, production_line_efficiency, raw_material_inventory,
              finished_goods_inventory, production_queue,
              active_production_jobs, production_history,
              pending_product_shipments>>

mine_vars == <<inventory, ore_reserves, pending_shipments, shipped_materials>>

dist_vars == <<current_inventory, dist_pending_shipments, active_shipments,
               shipment_history, total_shipments, on_time_deliveries>>

retail_vars == <<product_inventory, product_prices, active_orders, sales_history,
                 retail_orders>>

orch_vars == <<mining_agents, processing_agents, routing_rules, material_traces,
               pending_operator_requests, manufacturing_agents,
               processed_to_manufacturing>>

sim_vars == <<operator_requests, raw_storage, processed_storage, inputs_accepted>>

vars == <<scenario, now, last_call, proc_vars, mfg_vars, mine_vars, dist_vars,
          retail_vars, orch_vars, sim_vars>>

\* everything outside one kind of agent
not_proc_vars == <<mfg_vars, mine_vars, dist_vars, retail_vars, orch_vars,
                  sim_vars>>
not_mfg_vars == <<proc_vars, mine_vars, dist_vars, retail_vars, orch_vars,
                  sim_vars>>
not_mine_vars == <<proc_vars, mfg_vars, dist_vars, retail_vars, orch_vars,
                  sim_vars>>
not_dist_vars == <<proc_vars, mfg_vars, mine_vars, retail_vars, orch_vars,
                  sim_vars>>
not_retail_vars == <<proc_vars, mfg_vars, mine_vars, dist_vars, orch_vars,
                    sim_vars>>

\* scenarios in which the job engine of an agent is driven
ProcJobScenarios == {"processing_lines", "processing_priorities"}
MfgJobScenarios == {"manufacturing_lines", "manufacturing_priorities"}

\* ------------------------------------------------------------------ helpers
Min(a, b) == IF a < b THEN a ELSE b

RECURSIVE SumValues(_, _)
SumValues(f, S) ==
  IF S = {} THEN 0
  ELSE LET x == CHOOSE y \in S : TRUE IN f[x] + SumValues(f, S \ {x})

\* sum(d.values())
Total(f) == SumValues(f, DOMAIN f)

\* d[key] = value on an insertion-ordered dict kept as a sequence of records
\* keyed by job_id: an existing key keeps its position and gets the new value
DictPut(d, job) ==
  IF \E i \in 1..Len(d) : d[i].job_id = job.job_id
  THEN [i \in 1..Len(d) |-> IF d[i].job_id = job.job_id THEN job ELSE d[i]]
  ELSE Append(d, job)

\* the last call made on an agent: its arguments and what it returned
Call(op, agent, status, material, recipe, quantity) ==
  [op |-> op, agent |-> agent, status |-> status, material |-> material,
   recipe |-> recipe, quantity |-> quantity]

\* -------------------------------------------------------- ProcessingAgent
MethodSet == {processing_methods[i] : i \in 1..Len(processing_methods)}

\* equipment_status[method] = "operational" for every installed method and is
\* never reassigned; .get() of any other method is None
equipment_status(method) ==
  IF method \in MethodSet THEN "operational" ELSE "None"

\* random.uniform(85.0, 100.0) drawn once per method by the constructor
EfficiencyPcts == {85, 100}

can_process(ore_type) ==
  \E r \in RecipeNames : transformation_recipes[r].input_material = ore_type

\* a receipt that takes the whole shipment whenever any room is left
MiningReceipt_whole_shipment(storage, ore_type, quantity) ==
  IF ~can_process(ore_type) \/ Total(storage) >= raw_storage_capacity
  THEN [received |-> FALSE, storage |-> storage]
  ELSE [received |-> TRUE, storage |-> [storage EXCEPT ![ore_type] = @ + quantity]]

\* a receipt that keeps the ore of a shipment it turns away for lack of room
MiningReceipt_rejected_ore_kept(storage, ore_type, quantity) ==
  IF ~can_process(ore_type)
  THEN [received |-> FALSE, storage |-> storage]
  ELSE IF Total(storage) >= raw_storage_capacity
  THEN [received |-> FALSE,
        storage |-> [storage EXCEPT ![ore_type] = @ + quantity]]
  ELSE [received |-> TRUE,
        storage |-> [storage EXCEPT ![ore_type] =
                       @ + Min(quantity, raw_storage_capacity - Total(storage))]]

\* what receive_shipment_from_mining returns and leaves in one plant's raw storage
MiningReceipt(storage, ore_type, quantity) ==
  LET current_raw_storage == Total(storage)
      available_space == raw_storage_capacity - current_raw_storage
      over == current_raw_storage + quantity > raw_storage_capacity
      accepted == IF over THEN available_space ELSE quantity
  IN IF ~can_process(ore_type)
     THEN [received |-> FALSE, storage |-> storage]
     ELSE IF over /\ available_space <= 0
     THEN [received |-> FALSE, storage |-> storage]
     ELSE [received |-> TRUE,
           storage |-> [storage EXCEPT ![ore_type] = @ + accepted]]

receive_shipment_from_mining(p, ore_type, quantity) ==
  LET receipt == MiningReceipt(raw_material_storage[p], ore_type, quantity)
  IN /\ raw_material_storage' = [raw_material_storage EXCEPT ![p] = receipt.storage]
     /\ last_call' = Call("receive_shipment_from_mining", p,
                          IF receipt.received THEN "True" ELSE "False",
                          ore_type, "", quantity)

\* shipments handed to the plant by its caller
ShipmentsOffered ==
  IF scenario = "processing_intake"
  THEN [ore_type : RawMaterials, quantity : {3, 5}]
  ELSE [ore_type : {"Phosphorite Ore"}, quantity : {6}]

ReceiveShipmentFromMining ==
  /\ scenario \in {"processing_intake"} \cup ProcJobScenarios
  /\ \E p \in DrivenProcIds, shipment_data \in ShipmentsOffered :
       receive_shipment_from_mining(p, shipment_data.ore_type, shipment_data.quantity)
  /\ UNCHANGED <<scenario, now, created, equipment_efficiency,
                 processed_material_storage, processing_queue,
                 active_processing_jobs, processing_history, not_proc_vars>>

\* operator_inputs dictionaries offered to process_material; NoInputs is None
Priorities == {"urgent", "normal", "batch_when_full"}
NoInputs == [selected_recipe |-> "None", processing_priority |-> "None",
             quality_target |-> 0, batch_size |-> 0]
OperatorInputs ==
  IF scenario = "processing_intake"
  THEN [selected_recipe : {"Phosphorite_to_PG", "Iron_to_Steel", "Unknown_Recipe"},
        processing_priority : {"normal"},
        quality_target : {90},
        batch_size : {2, 3}] \cup {NoInputs}
  ELSE IF scenario = "processing_priorities"
  THEN [selected_recipe : {"Phosphorite_to_PG"},
        processing_priority : Priorities,
        quality_target : {85},
        batch_size : {1}]
  ELSE [selected_recipe : {"Phosphorite_to_PG", "Phosphorite_to_DAP"},
        processing_priority : {"normal"},
        quality_target : {85},
        batch_size : {1}]

\* material_type and quantity arguments of process_material
MaterialsOffered ==
  IF scenario = "processing_intake" THEN OreTypes ELSE {"Phosphorite Ore"}

\* operator_inputs is None: first recipe, normal priority, 0.85, half capacity
DefaultInputs(quantity) ==
  [selected_recipe |-> RecipeOrder[1], processing_priority |-> "normal",
   quality_target |-> 85,
   batch_size |-> Min(quantity, (processing_capacity * 50) \div 100)]

\* priority_order.get(job["priority"], 1)
priority_order(priority) ==
  CASE priority = "urgent" -> 0
    [] priority = "normal" -> 1
    [] priority = "batch_when_full" -> 2
    [] OTHER -> 1

\* a queue left in arrival order
SortByPriority_arrival_order(queue) == queue

\* list.sort(key=...) is stable: equal keys keep their relative order
SortByPriority(queue) ==
  SelectSeq(queue, LAMBDA job : priority_order(job.priority) = 0)
    \o SelectSeq(queue, LAMBDA job : priority_order(job.priority) = 1)
    \o SelectSeq(queue, LAMBDA job : priority_order(job.priority) = 2)

\* f"JOB_{agent_id}_{len(history) + 1:04d}", kept as the number
NextJobId(history) == Len(history) + 1

\* a job whose time and energy do not depend on the quality target
NewProcessingJob_reference_quality(p, material_type, oi) ==
  LET recipe == transformation_recipes[oi.selected_recipe]
      required_method == recipe.required_method
      eff == IF required_method \in DOMAIN equipment_efficiency[p]
             THEN equipment_efficiency[p][required_method] ELSE 100
  IN [job_id |-> NextJobId(processing_history[p]),
      recipe_name |-> oi.selected_recipe,
      input_material |-> material_type,
      input_quantity |-> oi.batch_size,
      expected_output_material |-> recipe.output_material,
      expected_output_quantity |-> oi.batch_size * recipe.conversion_ratio * eff,
      target_quality |-> oi.quality_target,
      processing_time_hours |-> recipe.processing_time_hours * 85,
      energy_cost |-> recipe.energy_cost_per_ton * 85 * oi.batch_size,
      priority |-> oi.processing_priority,
      status |-> "queued",
      created_at |-> created[p] + 1,
      started_at |-> NoTime,
      completed_at |-> NoTime,
      actual_output_quantity |-> 0]

\* expected_output_quantity is in 1/10000 ton (percent x percent),
\* processing_time_hours in 1/85 hour (hours x quality percent / 0.85),
\* energy_cost in 1/85 of the recipe's cost unit
NewProcessingJob(p, material_type, oi) ==
  LET recipe == transformation_recipes[oi.selected_recipe]
      required_method == recipe.required_method
      eff == IF required_method \in DOMAIN equipment_efficiency[p]
             THEN equipment_efficiency[p][required_method] ELSE 100
  IN [job_id |-> NextJobId(processing_history[p]),
      recipe_name |-> oi.selected_recipe,
      input_material |-> material_type,
      input_quantity |-> oi.batch_size,
      expected_output_material |-> recipe.output_material,
      expected_output_quantity |-> oi.batch_size * recipe.conversion_ratio * eff,
      target_quality |-> oi.quality_target,
      processing_time_hours |-> recipe.processing_time_hours * oi.quality_target,
      energy_cost |-> recipe.energy_cost_per_ton * oi.quality_target * oi.batch_size,
      priority |-> oi.processing_priority,
      status |-> "queued",
      created_at |-> created[p] + 1,
      started_at |-> NoTime,
      completed_at |-> NoTime,
      actual_output_quantity |-> 0]

\* enqueue without taking the batch out of raw storage
ReserveInput_left_in_storage(storage, material_type, batch_size) == storage

\* self.raw_material_storage[material_type] -= batch_size
ReserveInput(storage, material_type, batch_size) ==
  [storage EXCEPT ![material_type] = @ - batch_size]

\* what process_material returns (status, and the job it created) and what it
\* leaves in the plant's raw storage and queue
ProcessMaterialResult(p, material_type, quantity, operator_inputs) ==
  LET oi == IF operator_inputs = NoInputs THEN DefaultInputs(quantity)
            ELSE operator_inputs
      refused == [status |-> "error", oi |-> oi,
                  storage |-> raw_material_storage[p],
                  queue |-> processing_queue[p],
                  created |-> created[p]]
  IN IF oi.selected_recipe \notin RecipeNames
     THEN refused
     ELSE IF raw_material_storage[p][material_type] < oi.batch_size
     THEN refused
     ELSE IF equipment_status(transformation_recipes[oi.selected_recipe].required_method)
               # "operational"
     THEN refused
     ELSE [status |-> "success", oi |-> oi,
           storage |-> ReserveInput(raw_material_storage[p], material_type,
                                    oi.batch_size),
           queue |-> SortByPriority(Append(processing_queue[p],
                                           NewProcessingJob(p, material_type, oi))),
           created |-> created[p] + 1]

ProcessingAgent_process_material(p, material_type, quantity, operator_inputs) ==
  LET result == ProcessMaterialResult(p, material_type, quantity, operator_inputs)
  IN /\ raw_material_storage' = [raw_material_storage EXCEPT ![p] = result.storage]
     /\ processing_queue' = [processing_queue EXCEPT ![p] = result.queue]
     /\ created' = [created EXCEPT ![p] = result.created]
     /\ last_call' = [quality_target |-> result.oi.quality_target]
                       @@ Call("ProcessingAgent.process_material", p, result.status,
                               material_type, result.oi.selected_recipe,
                               result.oi.batch_size)

ProcessingProcessMaterial ==
  /\ \/ scenario = "processing_intake" /\ \A p \in ProcIds : created[p] < MaxReservations
     \/ scenario \in ProcJobScenarios /\ \A p \in ProcIds : created[p] < MaxJobs
  /\ \E p \in DrivenProcIds, material_type \in MaterialsOffered,
        quantity \in {2, 5}, operator_inputs \in OperatorInputs :
       /\ operator_inputs # NoInputs => quantity = 2
       /\ ProcessingAgent_process_material(p, material_type, quantity, operator_inputs)
  /\ UNCHANGED <<scenario, now, equipment_efficiency, processed_material_storage,
                 active_processing_jobs, processing_history, not_proc_vars>>

\* output variability random.uniform(0.95, 1.05), in percent
VarPcts == {95, 105}

\* current_time >= started_at + timedelta(hours=processing_time_hours)
JobFinished(job) == now * 85 >= job.started_at * 85 + job.processing_time_hours

\* job.get("required_method"): a job record has no such key, so this is None
JobRequiredMethod(job) == "None"

\* the while loop that starts queued jobs; returns the new active dict and queue
RECURSIVE start_new_jobs(_, _)
start_new_jobs(active, queue) ==
  IF Len(active) < Len(processing_methods) /\ queue # <<>>
  THEN LET next_job == Head(queue)
           required_method == transformation_recipes[next_job.recipe_name].required_method
           equipment_busy ==
             \E i \in 1..Len(active) : JobRequiredMethod(active[i]) = required_method
       IN IF ~equipment_busy /\ equipment_status(required_method) = "operational"
          THEN start_new_jobs(
                 DictPut(active, [next_job EXCEPT !.status = "processing",
                                                  !.started_at = now]),
                 Tail(queue))
          ELSE [active |-> active, queue |-> queue]
  ELSE [active |-> active, queue |-> queue]

\* an output on which the variability is applied twice
ActualOutput_compounded(output_quantity, quality_variability) ==
  (output_quantity * quality_variability * quality_variability) \div 100

\* actual_output = output_quantity * quality_variability, in 1/1000000 ton
ActualOutput(output_quantity, quality_variability) ==
  output_quantity * quality_variability

\* processed_material_storage is in 1/1000000 ton (expected output x percent)
run_processing_operations(p, variability) ==
  LET active == active_processing_jobs[p]
      stepped == [i \in 1..Len(active) |->
                    IF JobFinished(active[i])
                    THEN [active[i] EXCEPT !.status = "completed",
                                           !.completed_at = now,
                                           !.actual_output_quantity =
                                              ActualOutput(
                                                active[i].expected_output_quantity,
                                                variability[i])]
                    ELSE active[i]]
      finished == SelectSeq(stepped, LAMBDA job : job.status = "completed")
      remaining == SelectSeq(stepped, LAMBDA job : job.status # "completed")
      produced == [m \in ProcessedMaterials |->
                     SumValues([i \in 1..Len(finished) |->
                                  IF finished[i].expected_output_material = m
                                  THEN finished[i].actual_output_quantity ELSE 0],
                               1..Len(finished))]
      started == start_new_jobs(remaining, processing_queue[p])
  IN /\ processed_material_storage' =
          [processed_material_storage EXCEPT
             ![p] = [m \in ProcessedMaterials |-> @[m] + produced[m]]]
     /\ processing_history' = [processing_history EXCEPT ![p] = @ \o finished]
     /\ active_processing_jobs' = [active_processing_jobs EXCEPT ![p] = started.active]
     /\ processing_queue' = [processing_queue EXCEPT ![p] = started.queue]
     /\ last_call' = Call("run_processing_operations", p, "done", "", "", Len(finished))

RunProcessingOperations ==
  /\ scenario \in ProcJobScenarios \cup {"operator_completion"}
  /\ \E p \in DrivenProcIds :
       \E variability \in [1..Len(active_processing_jobs[p]) -> VarPcts] :
         /\ \A i \in 1..Len(active_processing_jobs[p]) :
              (scenario \in {"processing_priorities", "operator_completion"}
                 \/ ~JobFinished(active_processing_jobs[p][i])) => variability[i] = 95
         /\ run_processing_operations(p, variability)
  /\ UNCHANGED <<scenario, now, created, equipment_efficiency, raw_material_storage,
                 not_proc_vars>>

\* ------------------------------------------------------ ManufacturingAgent
\* ManufacturingAgent("MFG_001", ..., manufacturing_capacity, lines, recipes)
manufacturing_capacity == 10
production_lines == <<"chemical_production", "board_production">>
LineSet == {production_lines[i] : i \in 1..Len(production_lines)}

MfgRecipeNames == {"PG_to_Fertilizer", "PG_to_Plaster", "PG_to_Board", "PG_to_Cement"}

\* input_materials lists (material, units per unit of batch) in dict order;
\* output_quantity_ratio in percent, production_time_hours in hours;
\* the plant has no cement_production line
manufacturing_recipes ==
  [r \in MfgRecipeNames |->
     CASE r = "PG_to_Fertilizer" ->
            [input_materials |-> <<[material |-> "PG", ratio |-> 1],
                                   [material |-> "additives", ratio |-> 1]>>,
             output_product |-> "Bagged_Fertilizer", output_quantity_ratio |-> 90,
             production_time_hours |-> 2, energy_cost_per_unit |-> 15,
             required_line |-> "chemical_production"]
       [] r = "PG_to_Plaster" ->
            [input_materials |-> <<[material |-> "PG", ratio |-> 1]>>,
             output_product |-> "Plaster", output_quantity_ratio |-> 80,
             production_time_hours |-> 2, energy_cost_per_unit |-> 10,
             required_line |-> "chemical_production"]
       [] r = "PG_to_Board" ->
            [input_materials |-> <<[material |-> "PG", ratio |-> 1]>>,
             output_product |-> "Gypsum_Board", output_quantity_ratio |-> 70,
             production_time_hours |-> 1, energy_cost_per_unit |-> 12,
             required_line |-> "board_production"]
       [] r = "PG_to_Cement" ->
            [input_materials |-> <<[material |-> "PG", ratio |-> 1]>>,
             output_product |-> "Cement", output_quantity_ratio |-> 95,
             production_time_hours |-> 3, energy_cost_per_unit |-> 20,
             required_line |-> "cement_production"]]

\* materials a shipment may carry; no recipe takes "DAP"
MfgMaterials == {"PG", "additives", "DAP"}
Products == {manufacturing_recipes[r].output_product : r \in MfgRecipeNames}

\* one ton of material in the scale of raw_material_inventory, which is the
\* scale of a processing job's expected_output_quantity (1/10000 ton)
Ton == 10000

\* self.raw_material_capacity = self.capacity * 0.6, in 1/10000 ton
raw_material_capacity == ((manufacturing_capacity * 60) \div 100) * Ton

production_line_status(line) ==
  IF line \in LineSet THEN "operational" ELSE "None"

\* random.uniform(85.0, 98.0) drawn once per line by the constructor
LineEfficiencyPcts == {85, 98}

can_manufacture(material_type) ==
  \E r \in MfgRecipeNames :
    \E i \in 1..Len(manufacturing_recipes[r].input_materials) :
      manufacturing_recipes[r].input_materials[i].material = material_type

\* what receive_shipment_from_processing returns and leaves in the raw
\* material inventory; quantities in 1/10000 ton
ProcessingReceipt(inv, material_type, quantity) ==
  LET current_raw_storage == Total(inv)
      available_space == raw_material_capacity - current_raw_storage
      over == current_raw_storage + quantity > raw_material_capacity
      accepted == IF over THEN available_space ELSE quantity
  IN IF ~can_manufacture(material_type)
     THEN [received |-> FALSE, inventory |-> inv]
     ELSE IF over /\ available_space <= 0
     THEN [received |-> FALSE, inventory |-> inv]
     ELSE [received |-> TRUE,
           inventory |-> [inv EXCEPT ![material_type] = @ + accepted]]

receive_shipment_from_processing(material_type, quantity) ==
  LET receipt == ProcessingReceipt(raw_material_inventory, material_type, quantity)
  IN /\ raw_material_inventory' = receipt.inventory
     /\ last_call' = Call("receive_shipment_from_processing", "MFG_001",
                          IF receipt.received THEN "True" ELSE "False",
                          material_type, "", quantity)

MfgShipmentsOffered ==
  IF scenario = "manufacturing_intake"
  THEN [material_type : MfgMaterials, quantity : {3 * Ton, 5 * Ton}]
  ELSE [material_type : {"PG"}, quantity : {6 * Ton}]

ReceiveShipmentFromProcessing ==
  /\ scenario \in {"manufacturing_intake", "manufacturing_shipping"}
                   \cup MfgJobScenarios
  /\ \E shipment_data \in MfgShipmentsOffered :
       receive_shipment_from_processing(shipment_data.material_type,
                                        shipment_data.quantity)
  /\ UNCHANGED <<scenario, now, mfg_created, production_line_efficiency,
                 finished_goods_inventory, production_queue,
                 active_production_jobs, production_history,
                 pending_product_shipments, not_mfg_vars>>

MfgPriorities == {"urgent", "normal", "batch_production"}
MfgNoInputs == [production_priority |-> "None", quality_standard |-> "None",
                batch_size |-> 0, quality_control_level |-> "None"]
MfgOperatorInputs ==
  CASE scenario = "manufacturing_intake" ->
         [production_priority : {"normal"}, quality_standard : {"premium"},
          batch_size : {2, 3}, quality_control_level : {"enhanced"}]
           \cup {MfgNoInputs}
    [] scenario = "manufacturing_shipping" ->
         [production_priority : {"normal"}, quality_standard : {"standard"},
          batch_size : {1}, quality_control_level : {"standard"}]
    [] scenario = "manufacturing_priorities" ->
         [production_priority : MfgPriorities, quality_standard : {"standard"},
          batch_size : {1}, quality_control_level : {"standard"}]
    [] OTHER ->
         [production_priority : {"normal"}, quality_standard : {"standard"},
          batch_size : {1}, quality_control_level : {"standard"}]

MfgRecipesOffered ==
  CASE scenario = "manufacturing_intake" ->
         {"PG_to_Fertilizer", "PG_to_Board", "PG_to_Cement", "Unknown_Recipe"}
    [] scenario \in {"manufacturing_shipping", "manufacturing_priorities"} ->
         {"PG_to_Board"}
    [] OTHER -> {"PG_to_Plaster", "PG_to_Board"}

\* operator_inputs is None
MfgDefaultInputs ==
  [production_priority |-> "normal", quality_standard |-> "standard",
   batch_size |-> (manufacturing_capacity * 50) \div 100,
   quality_control_level |-> "standard"]

mfg_priority_order(priority) ==
  CASE priority = "urgent" -> 0
    [] priority = "normal" -> 1
    [] priority = "batch_production" -> 2
    [] OTHER -> 1

MfgSortByPriority(queue) ==
  SelectSeq(queue, LAMBDA job : mfg_priority_order(job.priority) = 0)
    \o SelectSeq(queue, LAMBDA job : mfg_priority_order(job.priority) = 1)
    \o SelectSeq(queue, LAMBDA job : mfg_priority_order(job.priority) = 2)

\* quality_multipliers, in tenths
quality_multipliers(quality_standard) ==
  CASE quality_standard = "standard" -> 10
    [] quality_standard = "premium" -> 13
    [] quality_standard = "industrial_grade" -> 8
    [] OTHER -> 10

\* batch_size * ratio summed per material of the recipe, in 1/10000 ton
RequiredQuantity(recipe, batch_size, material) ==
  SumValues([i \in 1..Len(recipe.input_materials) |->
               IF recipe.input_materials[i].material = material
               THEN batch_size * recipe.input_materials[i].ratio * Ton ELSE 0],
            1..Len(recipe.input_materials))

\* expected_output_quantity is in 1/10000 unit (percent x percent),
\* production_time_hours in 1/10 hour
NewProductionJob(recipe_name, oi) ==
  LET recipe == manufacturing_recipes[recipe_name]
      required_line == recipe.required_line
      eff == IF required_line \in DOMAIN production_line_efficiency
             THEN production_line_efficiency[required_line] ELSE 100
  IN [job_id |-> NextJobId(production_history),
      recipe_name |-> recipe_name,
      input_materials |-> [m \in MfgMaterials |->
                             RequiredQuantity(recipe, oi.batch_size, m)],
      expected_output_product |-> recipe.output_product,
      expected_output_quantity |-> oi.batch_size * recipe.output_quantity_ratio * eff,
      quality_standard |-> oi.quality_standard,
      production_time_hours |->
        recipe.production_time_hours * quality_multipliers(oi.quality_standard),
      priority |-> oi.production_priority,
      quality_control_level |-> oi.quality_control_level,
      status |-> "queued",
      created_at |-> mfg_created + 1,
      started_at |-> NoTime,
      completed_at |-> NoTime,
      actual_output_quantity |-> 0]

\* a validation that looks at the first input material only
MissingInput_first_only(recipe, batch_size) ==
  raw_material_inventory[recipe.input_materials[1].material]
    < batch_size * recipe.input_materials[1].ratio * Ton

\* the validation loop over recipe["input_materials"], run before any deduction
MissingInput(recipe, batch_size) ==
  \E i \in 1..Len(recipe.input_materials) :
    raw_material_inventory[recipe.input_materials[i].material]
      < batch_size * recipe.input_materials[i].ratio * Ton

ManufacturingAgent_process_material(recipe_name, operator_inputs) ==
  LET oi == IF operator_inputs = MfgNoInputs THEN MfgDefaultInputs
            ELSE operator_inputs
      op == "ManufacturingAgent.process_material"
      recipe == manufacturing_recipes[recipe_name]
  IN IF recipe_name \notin MfgRecipeNames
     THEN /\ last_call' = Call(op, "MFG_001", "error", "", recipe_name, oi.batch_size)
          /\ UNCHANGED <<mfg_created, raw_material_inventory, production_queue>>
     ELSE IF MissingInput(recipe, oi.batch_size)
     THEN /\ last_call' = Call(op, "MFG_001", "error", "", recipe_name, oi.batch_size)
          /\ UNCHANGED <<mfg_created, raw_material_inventory, production_queue>>
     ELSE IF production_line_status(recipe.required_line) # "operational"
     THEN /\ last_call' = Call(op, "MFG_001", "error", "", recipe_name, oi.batch_size)
          /\ UNCHANGED <<mfg_created, raw_material_inventory, production_queue>>
     ELSE /\ raw_material_inventory' =
               [m \in MfgMaterials |->
                  raw_material_inventory[m] - RequiredQuantity(recipe, oi.batch_size, m)]
          /\ production_queue' =
               MfgSortByPriority(Append(production_queue,
                                        NewProductionJob(recipe_name, oi)))
          /\ mfg_created' = mfg_created + 1
          /\ last_call' = Call(op, "MFG_001", "success", "", recipe_name, oi.batch_size)

ManufacturingProcessMaterial ==
  /\ \/ scenario \in {"manufacturing_intake", "manufacturing_shipping"}
          /\ mfg_created < MaxReservations
     \/ scenario \in MfgJobScenarios /\ mfg_created < MaxJobs
  /\ \E recipe_name \in MfgRecipesOffered, operator_inputs \in MfgOperatorInputs :
       ManufacturingAgent_process_material(recipe_name, operator_inputs)
  /\ UNCHANGED <<scenario, now, production_line_efficiency,
                 finished_goods_inventory, active_production_jobs,
                 production_history, pending_product_shipments, not_mfg_vars>>

\* perform_quality_control draws random.random() < success_rate with
\* 0 < success_rate <= 0.99, then random.uniform(0.97, 1.03) on success
QcOutcomes == {[qc_success |-> TRUE, variability |-> 97],
               [qc_success |-> TRUE, variability |-> 103],
               [qc_success |-> FALSE, variability |-> 0]}

\* current_time >= started_at + timedelta(hours=production_time_hours)
ProductionJobFinished(job) ==
  now * 10 >= job.started_at * 10 + job.production_time_hours

\* a promotion that, once the head of the queue is blocked, starts the first
\* job behind it whose line is free
RECURSIVE start_new_production_jobs_skip_ahead(_, _)
start_new_production_jobs_skip_ahead(active, queue) ==
  LET line(job) == manufacturing_recipes[job.recipe_name].required_line
      startable == {i \in 1..Len(queue) :
                      /\ \A k \in 1..Len(active) : line(active[k]) # line(queue[i])
                      /\ production_line_status(line(queue[i])) = "operational"}
      promoted(i) == DictPut(active, [queue[i] EXCEPT !.status = "manufacturing",
                                                     !.started_at = now])
  IN IF Len(active) < Len(production_lines) /\ startable # {}
     THEN IF 1 \in startable
          THEN start_new_production_jobs_skip_ahead(promoted(1), Tail(queue))
          ELSE LET i == CHOOSE j \in startable : \A k \in startable : j <= k
               IN [active |-> promoted(i),
                   queue |-> SubSeq(queue, 1, i - 1)
                               \o SubSeq(queue, i + 1, Len(queue))]
     ELSE [active |-> active, queue |-> queue]

RECURSIVE start_new_production_jobs(_, _)
start_new_production_jobs(active, queue) ==
  IF Len(active) < Len(production_lines) /\ queue # <<>>
  THEN LET next_job == Head(queue)
           required_line == manufacturing_recipes[next_job.recipe_name].required_line
           line_busy ==
             \E i \in 1..Len(active) :
               manufacturing_recipes[active[i].recipe_name].required_line = required_line
       IN IF ~line_busy /\ production_line_status(required_line) = "operational"
          THEN start_new_production_jobs(
                 DictPut(active, [next_job EXCEPT !.status = "manufacturing",
                                                  !.started_at = now]),
                 Tail(queue))
          ELSE [active |-> active, queue |-> queue]
  ELSE [active |-> active, queue |-> queue]

\* a failed job that is booked with the output it was expected to give
QualityControlFailed_credited(job, current_time) ==
  [job EXCEPT !.status = "quality_control_failed",
              !.completed_at = current_time,
              !.actual_output_quantity = job.expected_output_quantity * 97]

\* the record of a job that failed quality control
QualityControlFailed(job, current_time) ==
  [job EXCEPT !.status = "quality_control_failed",
              !.completed_at = current_time,
              !.actual_output_quantity = 0]

\* finished_goods_inventory is in 1/1000000 unit (expected output x percent)
run_manufacturing_operations(outcome) ==
  LET active == active_production_jobs
      stepped == [i \in 1..Len(active) |->
                    IF ProductionJobFinished(active[i])
                    THEN IF outcome[i].qc_success
                         THEN [active[i] EXCEPT
                                 !.status = "completed",
                                 !.completed_at = now,
                                 !.actual_output_quantity =
                                    active[i].expected_output_quantity
                                      * outcome[i].variability]
                         ELSE QualityControlFailed(active[i], now)
                    ELSE active[i]]
      finished == SelectSeq(stepped, LAMBDA job : job.status # "manufacturing")
      remaining == SelectSeq(stepped, LAMBDA job : job.status = "manufacturing")
      produced == [m \in Products |->
                     SumValues([i \in 1..Len(finished) |->
                                  IF finished[i].expected_output_product = m
                                  THEN finished[i].actual_output_quantity ELSE 0],
                               1..Len(finished))]
      started == start_new_production_jobs(remaining, production_queue)
  IN /\ finished_goods_inventory' =
          [m \in Products |-> finished_goods_inventory[m] + produced[m]]
     /\ production_history' = production_history \o finished
     /\ active_production_jobs' = started.active
     /\ production_queue' = started.queue
     /\ last_call' = Call("run_manufacturing_operations", "MFG_001", "done", "", "",
                          Len(finished))

RunManufacturingOperations ==
  /\ scenario \in {"manufacturing_shipping"} \cup MfgJobScenarios
  /\ \E outcome \in [1..Len(active_production_jobs) -> QcOutcomes] :
       /\ \A i \in 1..Len(active_production_jobs) :
            /\ ~ProductionJobFinished(active_production_jobs[i])
                 => outcome[i] = [qc_success |-> FALSE, variability |-> 0]
            /\ (scenario = "manufacturing_priorities"
                  /\ ProductionJobFinished(active_production_jobs[i]))
                 => outcome[i] = [qc_success |-> TRUE, variability |-> 97]
       /\ run_manufacturing_operations(outcome)
  /\ UNCHANGED <<scenario, now, mfg_created, production_line_efficiency,
                 raw_material_inventory, pending_product_shipments, not_mfg_vars>>

\* one whole unit of finished goods, in the scale of finished_goods_inventory
Unit == 1000000

\* d[shipment_id] = shipment on an insertion-ordered dict kept as a sequence
ShipmentPut(d, shipment) ==
  IF \E i \in 1..Len(d) : d[i].shipment_id = shipment.shipment_id
  THEN [i \in 1..Len(d) |->
          IF d[i].shipment_id = shipment.shipment_id THEN shipment ELSE d[i]]
  ELSE Append(d, shipment)

create_shipment_to_distribution(product_type, quantity, destination_agent_id) ==
  LET op == "create_shipment_to_distribution"
  IN IF finished_goods_inventory[product_type] < quantity
     THEN /\ last_call' = Call(op, "MFG_001", "False", product_type, "", quantity)
          /\ UNCHANGED <<finished_goods_inventory, pending_product_shipments>>
     ELSE /\ finished_goods_inventory' =
               [finished_goods_inventory EXCEPT ![product_type] = @ - quantity]
          /\ pending_product_shipments' =
               ShipmentPut(pending_product_shipments,
                 [shipment_id |-> Len(pending_product_shipments) + 1,
                  product_type |-> product_type,
                  quantity |-> quantity,
                  destination_agent_id |-> destination_agent_id,
                  status |-> "pending_pickup"])
          /\ last_call' = Call(op, "MFG_001", "True", product_type, "", quantity)

CreateShipmentToDistribution ==
  /\ scenario = "manufacturing_shipping"
  /\ \E product_type \in {"Gypsum_Board", "Plaster"}, quantity \in {Unit \div 2, Unit} :
       create_shipment_to_distribution(product_type, quantity, "DIST_001")
  /\ UNCHANGED <<scenario, now, mfg_created, production_line_efficiency,
                 raw_material_inventory, production_queue, active_production_jobs,
                 production_history, not_mfg_vars>>

\* -------------------------------------------------------------- MiningAgent
\* MiningAgent("MINE_001", ..., mine_capacity, ore_types, extraction_rate)
mine_capacity == 6
extraction_rate == 3
\* ore_types in list order; dict order of ore_reserves is the same
ore_types == <<"Phosphorite Ore", "Iron Ore">>

\* random.uniform(1000, 5000) per ore type, drawn by the constructor
ReserveDraws == {[o \in OreTypes |-> IF o = "Phosphorite Ore" THEN 5 ELSE 2],
                 [o \in OreTypes |-> IF o = "Phosphorite Ore" THEN 2 ELSE 3],
                 [o \in OreTypes |-> IF o = "Phosphorite Ore" THEN 8 ELSE 2]}

\* max(self.ore_reserves.items(), key=lambda x: x[1])[0]: the first ore in
\* dict order among those with the largest reserves
MaxReserveOre ==
  LET best == CHOOSE i \in 1..Len(ore_types) :
                /\ \A j \in 1..Len(ore_types) :
                     ore_reserves[ore_types[j]] <= ore_reserves[ore_types[i]]
                /\ \A j \in 1..(i - 1) :
                     ore_reserves[ore_types[j]] < ore_reserves[ore_types[i]]
  IN ore_types[best]

\* the ore process_material extracts for a requested material
TargetOre(material) ==
  IF material \in OreTypes THEN material ELSE MaxReserveOre

\* an extraction that does not look at the room left in the mine's storage
ExtractionAmount_storage_ignored(material, quantity) ==
  LET target_ore == TargetOre(material)
      by_rate == Min(quantity, extraction_rate)
  IN IF ore_reserves[target_ore] < by_rate
     THEN ore_reserves[target_ore] ELSE by_rate

\* the amount process_material extracts for a requested quantity
ExtractionAmount(material, quantity) ==
  LET target_ore == TargetOre(material)
      by_rate == Min(quantity, extraction_rate)
      by_reserves == IF ore_reserves[target_ore] < by_rate
                     THEN ore_reserves[target_ore] ELSE by_rate
      remaining_capacity == mine_capacity - Total(inventory)
  IN IF by_reserves > remaining_capacity THEN remaining_capacity ELSE by_reserves

MiningAgent_process_material(material, quantity) ==
  LET target_ore == TargetOre(material)
      extraction_amount == ExtractionAmount(material, quantity)
      op == "MiningAgent.process_material"
  IN IF extraction_amount > 0
     THEN /\ ore_reserves' = [ore_reserves EXCEPT ![target_ore] = @ - extraction_amount]
          /\ inventory' = [inventory EXCEPT ![target_ore] = @ + extraction_amount]
          /\ last_call' = [requested_material |-> material,
                            requested_quantity |-> quantity]
                            @@ Call(op, "MINE_001", "success", target_ore, "",
                                    extraction_amount)
     ELSE /\ UNCHANGED <<ore_reserves, inventory>>
          /\ last_call' = [requested_material |-> material,
                            requested_quantity |-> quantity]
                            @@ Call(op, "MINE_001", "limited_extraction", target_ore,
                                    "", extraction_amount)

MiningProcessMaterial ==
  /\ scenario = "mining"
  /\ \E material \in RawMaterials, quantity \in {2, 5} :
       MiningAgent_process_material(material, quantity)
  /\ UNCHANGED <<scenario, now, pending_shipments, shipped_materials, not_mine_vars>>

create_shipment_to_processing(ore_type, quantity, destination_agent_id) ==
  LET op == "create_shipment_to_processing"
      held == IF ore_type \in DOMAIN inventory THEN inventory[ore_type] ELSE 0
  IN IF held < quantity
     THEN /\ last_call' = Call(op, "MINE_001", "False", ore_type, "", quantity)
          /\ UNCHANGED <<inventory, pending_shipments>>
     ELSE IF ore_type \notin OreTypes
     THEN /\ last_call' = Call(op, "MINE_001", "False", ore_type, "", quantity)
          /\ UNCHANGED <<inventory, pending_shipments>>
     ELSE /\ inventory' = [inventory EXCEPT ![ore_type] = @ - quantity]
          /\ pending_shipments' =
               ShipmentPut(pending_shipments,
                 [shipment_id |-> Len(pending_shipments) + 1,
                  ore_type |-> ore_type,
                  quantity |-> quantity,
                  destination_agent_id |-> destination_agent_id,
                  status |-> "pending_pickup"])
          /\ last_call' = Call(op, "MINE_001", "True", ore_type, "", quantity)

CreateShipmentToProcessing ==
  /\ scenario \in {"mining", "auto_routing"}
  /\ \E ore_type \in IF scenario = "mining" THEN RawMaterials ELSE OreTypes,
        quantity \in IF scenario = "mining" THEN {2, 3} ELSE {2} :
       create_shipment_to_processing(ore_type, quantity, "PROC_001")
  /\ UNCHANGED <<scenario, now, ore_reserves, shipped_materials, not_mine_vars>>

\* the shipments process_shipments returns, in dispatch order
Dispatched(pending) ==
  [i \in 1..Len(pending) |-> [pending[i] EXCEPT !.status = "dispatched"]]

MiningAgent_process_shipments ==
  /\ shipped_materials' = shipped_materials \o Dispatched(pending_shipments)
  /\ pending_shipments' = <<>>
  /\ last_call' = Call("MiningAgent.process_shipments", "MINE_001", "done", "", "",
                       Len(pending_shipments))

MiningProcessShipments ==
  /\ scenario = "mining"
  /\ MiningAgent_process_shipments
  /\ UNCHANGED <<scenario, now, inventory, ore_reserves, not_mine_vars>>

\* -------------------------------------------------------- DistributionAgent
\* DistributionAgent("DIST_001", ..., warehouse_capacity, ship_zones)
warehouse_capacity == 10
shipping_zones == {"Zone_A", "Zone_B", "Zone_C"}
DistProducts == {"Gypsum_Board", "Plaster"}

\* process_material raises AttributeError once the warehouse is more than 90%
\* full: the warning reads self.warehouse_capacity, which is never assigned
DistributionAgent_process_material(material, quantity) ==
  LET op == "DistributionAgent.process_material"
      total_inventory == Total(current_inventory) + quantity
  IN /\ current_inventory' = [current_inventory EXCEPT ![material] = @ + quantity]
     /\ IF total_inventory * 10 > warehouse_capacity * 9
        THEN last_call' = Call(op, "DIST_001", "AttributeError", material, "", quantity)
        ELSE last_call' = Call(op, "DIST_001", "success", material, "", quantity)

DistributionProcessMaterial ==
  /\ scenario \in {"distribution_orders", "distribution_delivery",
                   "distribution_backlog"}
  /\ \E material \in {"Gypsum_Board"}, quantity \in {6} :
       /\ Total(current_inventory) + quantity <= MaxStock
       /\ DistributionAgent_process_material(material, quantity)
  /\ UNCHANGED <<scenario, now, dist_pending_shipments, active_shipments,
                 shipment_history, total_shipments, on_time_deliveries,
                 not_dist_vars>>

\* d[order_id] = order on an insertion-ordered dict kept as a sequence
OrderPut(d, order) ==
  IF \E i \in 1..Len(d) : d[i].order_id = order.order_id
  THEN [i \in 1..Len(d) |-> IF d[i].order_id = order.order_id THEN order ELSE d[i]]
  ELSE Append(d, order)

\* a stock check that only refuses an empty shelf
InsufficientInventory_empty_only(material, quantity) ==
  current_inventory[material] <= 0

\* self.current_inventory.get(material, 0.0) < quantity
InsufficientInventory(material, quantity) ==
  current_inventory[material] < quantity

create_shipping_order(material, quantity, destination, delivery_zone) ==
  LET op == "create_shipping_order"
  IN IF InsufficientInventory(material, quantity)
     THEN /\ last_call' = Call(op, "DIST_001", "False", material, "", quantity)
          /\ UNCHANGED <<current_inventory, dist_pending_shipments, total_shipments>>
     ELSE IF delivery_zone \notin shipping_zones
     THEN /\ last_call' = Call(op, "DIST_001", "False", material, "", quantity)
          /\ UNCHANGED <<current_inventory, dist_pending_shipments, total_shipments>>
     ELSE /\ current_inventory' = [current_inventory EXCEPT ![material] = @ - quantity]
          /\ dist_pending_shipments' =
               OrderPut(dist_pending_shipments,
                 [order_id |-> Len(dist_pending_shipments) + 1,
                  material |-> material,
                  quantity |-> quantity,
                  destination |-> destination,
                  delivery_zone |-> delivery_zone,
                  status |-> "pending",
                  created_at |-> total_shipments + 1,
                  dispatched_at |-> NoTime,
                  estimated_delivery_time |-> NoTime,
                  delivered_at |-> NoTime])
          /\ total_shipments' = total_shipments + 1
          /\ last_call' = Call(op, "DIST_001", "True", material, "", quantity)

OrdersOffered ==
  IF scenario = "distribution_backlog"
  THEN [material : {"Gypsum_Board"}, quantity : {1}, delivery_zone : {"Zone_A"}]
  ELSE IF scenario = "distribution_orders"
  THEN [material : {"Gypsum_Board"}, quantity : {1}, delivery_zone : {"Zone_A", "Zone_X"}]
  ELSE [material : {"Gypsum_Board"}, quantity : {2, 5}, delivery_zone : {"Zone_A"}]

CreateShippingOrder ==
  /\ \/ scenario = "distribution_orders" /\ total_shipments < MaxOrders
     \/ scenario = "distribution_delivery" /\ total_shipments < MaxDeliveries
     \/ scenario = "distribution_backlog" /\ total_shipments < MaxBacklog
  /\ \E order \in OrdersOffered :
       create_shipping_order(order.material, order.quantity, "Customer",
                             order.delivery_zone)
  /\ UNCHANGED <<scenario, now, active_shipments, shipment_history,
                 on_time_deliveries, not_dist_vars>>

\* hours added to datetime.now() for the estimated delivery time
DeliveryHours(zone) ==
  CASE zone = "Zone_A" -> 8
    [] zone = "Zone_B" -> 12
    [] zone = "Zone_C" -> 16
    [] OTHER -> 24

\* list(self.pending_shipments.keys())[:5]
BatchLimit == 5

DispatchOrder(order) ==
  [order EXCEPT !.status = "dispatched",
                !.dispatched_at = now,
                !.estimated_delivery_time = now + DeliveryHours(order.delivery_zone)]

RECURSIVE PutAll(_, _)
PutAll(d, orders) ==
  IF orders = <<>> THEN d ELSE PutAll(OrderPut(d, Head(orders)), Tail(orders))

DistributionAgent_process_shipments ==
  LET n == Min(BatchLimit, Len(dist_pending_shipments))
      batch == [i \in 1..n |-> DispatchOrder(dist_pending_shipments[i])]
  IN /\ active_shipments' = PutAll(active_shipments, batch)
     /\ shipment_history' = shipment_history \o batch
     /\ dist_pending_shipments' =
          SubSeq(dist_pending_shipments, n + 1, Len(dist_pending_shipments))
     /\ last_call' = Call("DistributionAgent.process_shipments", "DIST_001", "done",
                          "", "", n)

DistributionProcessShipments ==
  /\ scenario \in {"distribution_orders", "distribution_delivery",
                   "distribution_backlog"}
  /\ DistributionAgent_process_shipments
  /\ UNCHANGED <<scenario, now, current_inventory, total_shipments,
                 on_time_deliveries, not_dist_vars>>

\* a delivery that counts as on time whenever it arrives
OnTime_whenever(shipment) == TRUE

\* shipment.get("estimated_delivery_time") and
\* shipment["delivered_at"] <= shipment["estimated_delivery_time"]
OnTime(shipment) ==
  /\ shipment.estimated_delivery_time # NoTime
  /\ shipment.delivered_at <= shipment.estimated_delivery_time

complete_shipment(order_id) ==
  LET op == "complete_shipment"
  IN IF ~\E i \in 1..Len(active_shipments) : active_shipments[i].order_id = order_id
     THEN /\ last_call' = Call(op, "DIST_001", "False", "", "", order_id)
          /\ UNCHANGED <<active_shipments, shipment_history, total_shipments,
                         on_time_deliveries>>
     ELSE LET i == CHOOSE j \in 1..Len(active_shipments) :
                     active_shipments[j].order_id = order_id
              shipment == [active_shipments[i] EXCEPT !.status = "delivered",
                                                      !.delivered_at = now]
          IN /\ on_time_deliveries' =
                  IF OnTime(shipment)
                  THEN on_time_deliveries + 1 ELSE on_time_deliveries
             /\ shipment_history' = Append(shipment_history, shipment)
             /\ active_shipments' =
                  SelectSeq(active_shipments, LAMBDA o : o.order_id # order_id)
             /\ total_shipments' = IF total_shipments < 1 THEN 1 ELSE total_shipments
             /\ last_call' = Call(op, "DIST_001", "True", "", "", order_id)

CompleteShipment ==
  /\ scenario = "distribution_delivery"
  /\ \E order_id \in 1..(MaxDeliveries + 1) : complete_shipment(order_id)
  /\ UNCHANGED <<scenario, now, current_inventory, dist_pending_shipments,
                 not_dist_vars>>

\* -------------------------------------------------------------- RetailAgent
\* RetailAgent("RETAIL_001", ..., store_capacity, sales_channels, customer_zones)
store_capacity == 8
\* a product with no entry in product_prices
NoPrice == 0

\* base_prices.get(product_type, 50.0), in cents
BasePrice(product_type) ==
  IF product_type = "Bagged_Fertilizer" THEN 2500 ELSE 5000

\* random.uniform(0.85, 1.15), in percent
PriceVariations == {85, 115}

receive_shipment_from_distribution(product_type, quantity, price_variation) ==
  LET op == "receive_shipment_from_distribution"
      total == Total(product_inventory)
      available_space == store_capacity - total
      accepted == IF total + quantity > store_capacity THEN available_space ELSE quantity
  IN IF total + quantity > store_capacity /\ available_space <= 0
     THEN /\ last_call' = Call(op, "RETAIL_001", "False", product_type, "", quantity)
          /\ UNCHANGED <<product_inventory, product_prices>>
     ELSE /\ product_inventory' = [product_inventory EXCEPT ![product_type] = @ + accepted]
          /\ product_prices' =
               IF product_prices[product_type] = NoPrice
               THEN [product_prices EXCEPT
                       ![product_type] = (BasePrice(product_type) * price_variation) \div 100]
               ELSE product_prices
          /\ last_call' = Call(op, "RETAIL_001", "True", product_type, "", quantity)

RetailReceiveShipment ==
  /\ scenario = "retail"
  /\ \E product_type \in DistProducts, quantity \in {3, 6}, pv \in PriceVariations :
       /\ (product_prices[product_type] # NoPrice \/ product_type # "Plaster")
            => pv = 85
       /\ receive_shipment_from_distribution(product_type, quantity, pv)
  /\ UNCHANGED <<scenario, now, active_orders, sales_history, retail_orders,
                 not_retail_vars>>

\* percent multipliers of calculate_order_price
StrategyMultiplier(pricing_strategy, quantity) ==
  CASE pricing_strategy = "promotional" -> 85
    [] pricing_strategy = "bulk_discount" -> IF quantity > 50 THEN 90 ELSE 100
    [] pricing_strategy = "premium" -> 115
    [] OTHER -> 100

CustomerMultiplier(customer_type) ==
  CASE customer_type = "new_customer" -> 95
    [] customer_type = "vip_customer" -> 90
    [] customer_type = "wholesale_customer" -> 80
    [] OTHER -> 100

\* the elif branch (quantity > 500) is only tried when quantity <= 100
QuantityMultiplier(quantity) ==
  IF quantity > 100 THEN 95
  ELSE IF quantity > 500 THEN 90
  ELSE 100

\* round(price, 2) on a price in cents scaled by three percent multipliers;
\* the quantity multiplier is taken in twentieths to stay within 32 bits
calculate_order_price(base_price, quantity, pricing_strategy, customer_type) ==
  (base_price * StrategyMultiplier(pricing_strategy, quantity)
     * CustomerMultiplier(customer_type) * (QuantityMultiplier(quantity) \div 5)
   + 100000) \div 200000

\* RetailAgent.calculate_order_price called on its own: with a price that
\* set_initial_product_price can have set, an order size on either side of the
\* two quantity thresholds, and a key of each of the two multiplier tables
CalculateOrderPrice ==
  /\ scenario = "pricing"
  /\ \E base_price \in {(BasePrice(p) * v) \div 100 :
                          p \in {"Bagged_Fertilizer", "Plaster"},
                          v \in PriceVariations},
        quantity \in {100, 101, 500, 501},
        pricing_strategy \in {"standard", "promotional", "bulk_discount",
                              "premium"},
        customer_type \in {"new_customer", "returning_customer", "vip_customer",
                           "wholesale_customer"} :
       last_call' =
         [base_price |-> base_price, pricing_strategy |-> pricing_strategy,
          customer_type |-> customer_type,
          price |-> calculate_order_price(base_price, quantity,
                                          pricing_strategy, customer_type)]
           @@ Call("calculate_order_price", "RETAIL_001", "", "", "", quantity)
  /\ UNCHANGED <<scenario, now, retail_vars, not_retail_vars>>

\* self.active_orders[order_id] = order_record
ActiveOrderPut(d, order) ==
  IF \E i \in 1..Len(d) : d[i].order_id = order.order_id
  THEN [i \in 1..Len(d) |-> IF d[i].order_id = order.order_id THEN order ELSE d[i]]
  ELSE Append(d, order)

\* "standard_delivery" in the first customer zone ("residential")
StandardDeliveryHours == 48

RetailAgent_process_material(product_type, quantity) ==
  LET op == "RetailAgent.process_material"
      final_price == calculate_order_price(product_prices[product_type], quantity,
                                           "standard", "returning_customer")
  IN IF product_inventory[product_type] < quantity
     THEN /\ last_call' = Call(op, "RETAIL_001", "error", product_type, "", quantity)
          /\ UNCHANGED <<product_inventory, active_orders, retail_orders>>
     ELSE IF product_prices[product_type] = NoPrice
     THEN /\ last_call' = Call(op, "RETAIL_001", "error", product_type, "", quantity)
          /\ UNCHANGED <<product_inventory, active_orders, retail_orders>>
     ELSE /\ product_inventory' = [product_inventory EXCEPT ![product_type] = @ - quantity]
          /\ active_orders' =
               ActiveOrderPut(active_orders,
                 [order_id |-> Len(sales_history) + 1,
                  product_type |-> product_type,
                  quantity |-> quantity,
                  unit_price |-> final_price,
                  total_amount |-> final_price * quantity,
                  status |-> "confirmed",
                  order_date |-> retail_orders + 1,
                  estimated_delivery |-> now + StandardDeliveryHours])
          /\ retail_orders' = retail_orders + 1
          /\ last_call' = Call(op, "RETAIL_001", "success", product_type, "", quantity)

RetailProcessMaterial ==
  /\ scenario = "retail"
  /\ retail_orders < MaxSales
  /\ \E product_type \in DistProducts, quantity \in {2, 4} :
       RetailAgent_process_material(product_type, quantity)
  /\ UNCHANGED <<scenario, now, product_prices, sales_history, not_retail_vars>>

complete_delivery(order_id) ==
  LET op == "complete_delivery"
  IN IF ~\E i \in 1..Len(active_orders) : active_orders[i].order_id = order_id
     THEN /\ last_call' = Call(op, "RETAIL_001", "False", "", "", order_id)
          /\ UNCHANGED <<active_orders, sales_history>>
     ELSE LET i == CHOOSE j \in 1..Len(active_orders) :
                     active_orders[j].order_id = order_id
          IN /\ sales_history' =
                  Append(sales_history, [active_orders[i] EXCEPT !.status = "delivered"])
             /\ active_orders' =
                  SelectSeq(active_orders, LAMBDA o : o.order_id # order_id)
             /\ last_call' = Call(op, "RETAIL_001", "True", "", "", order_id)

CompleteDelivery ==
  /\ scenario = "retail"
  /\ \E order_id \in 1..(MaxSales + 1) : complete_delivery(order_id)
  /\ UNCHANGED <<scenario, now, product_inventory, product_prices, retail_orders,
                 not_retail_vars>>

\* -------------------------------------------------- SupplyChainOrchestrator
\* routing_rules["ore_to_processing"].get(ore_type) for an ore with no entry
NoRoute == "None"

\* ore_processing_routes dictionaries handed to register_mining_agent;
\* the empty one stands for None
RouteTables ==
  IF scenario \in {"operator_requests", "operator_completion"}
  THEN {[o \in {"Phosphorite Ore"} |-> "PROC_001"]}
  ELSE IF scenario = "auto_routing"
  THEN {[o \in OreTypes |-> IF o = "Iron Ore" THEN "PROC_002" ELSE "PROC_001"]}
  ELSE {<<>>,
        [o \in {"Phosphorite Ore"} |-> "PROC_001"],
        [o \in {"Phosphorite Ore"} |-> "PROC_002"],
        [o \in {"Phosphorite Ore", "Iron Ore"} |-> "PROC_002"]}

\* the scenarios in which the caller drives the orchestrator
OrchestratorScenarios ==
  {"orchestrator", "operator_requests", "operator_completion", "auto_routing"}

\* a registration that keeps the destination a key already has
RoutesAfter_first_kept(rules, ore_processing_routes) ==
  [o \in RawMaterials |->
     IF o \in DOMAIN ore_processing_routes /\ rules[o] = NoRoute
     THEN ore_processing_routes[o] ELSE rules[o]]

\* routing_rules["ore_to_processing"][ore_type] = processing_agent_id per item
RoutesAfter(rules, ore_processing_routes) ==
  [o \in RawMaterials |->
     IF o \in DOMAIN ore_processing_routes
     THEN ore_processing_routes[o] ELSE rules[o]]

register_mining_agent(agent_id, ore_processing_routes) ==
  /\ mining_agents' = mining_agents \cup {agent_id}
  /\ routing_rules' = RoutesAfter(routing_rules, ore_processing_routes)
  /\ last_call' = Call("register_mining_agent", agent_id, "registered", "", "",
                       Cardinality(DOMAIN ore_processing_routes))

RegisterMiningAgent ==
  /\ scenario \in OrchestratorScenarios
  /\ \E ore_processing_routes \in RouteTables :
       register_mining_agent("MINE_001", ore_processing_routes)
  /\ UNCHANGED <<scenario, now, processing_agents, material_traces,
                 pending_operator_requests, manufacturing_agents,
                 processed_to_manufacturing, proc_vars, mfg_vars, mine_vars,
                 dist_vars, retail_vars, sim_vars>>

\* processing_manufacturing_routes dictionaries handed to
\* register_processing_agent; the empty one stands for None
ManufacturingRouteTables ==
  IF scenario = "operator_requests"
  THEN {<<>>, [m \in {"PG"} |-> "MFG_001"]}
  ELSE IF scenario = "operator_completion"
  THEN {[m \in {"PG"} |-> "MFG_001"]}
  ELSE {<<>>}

\* routing_rules["processed_to_manufacturing"][material_type] = agent id per item
ManufacturingRoutesAfter(rules, processing_manufacturing_routes) ==
  [m \in ProcessedMaterials |->
     IF m \in DOMAIN processing_manufacturing_routes
     THEN processing_manufacturing_routes[m] ELSE rules[m]]

register_processing_agent(agent_id, processing_manufacturing_routes) ==
  /\ processing_agents' = processing_agents \cup {agent_id}
  /\ processed_to_manufacturing' =
       ManufacturingRoutesAfter(processed_to_manufacturing,
                                processing_manufacturing_routes)
  /\ last_call' = Call("register_processing_agent", agent_id, "registered", "", "",
                       Cardinality(DOMAIN processing_manufacturing_routes))

RegisterProcessingAgent ==
  /\ scenario \in OrchestratorScenarios
  /\ \E agent_id \in IF scenario \in {"operator_requests", "operator_completion"}
                     THEN DrivenProcIds ELSE ProcIds,
        processing_manufacturing_routes \in ManufacturingRouteTables :
       register_processing_agent(agent_id, processing_manufacturing_routes)
  /\ UNCHANGED <<scenario, now, mining_agents, routing_rules, material_traces,
                 pending_operator_requests, manufacturing_agents, proc_vars,
                 mfg_vars, mine_vars, dist_vars, retail_vars, sim_vars>>

\* register_manufacturing_agent; the product routes it stores are read nowhere
register_manufacturing_agent(agent_id) ==
  /\ manufacturing_agents' = manufacturing_agents \cup {agent_id}
  /\ last_call' = Call("register_manufacturing_agent", agent_id, "registered",
                       "", "", 0)

RegisterManufacturingAgent ==
  /\ scenario \in {"operator_requests", "operator_completion"}
  /\ register_manufacturing_agent("MFG_001")
  /\ UNCHANGED <<scenario, now, mining_agents, processing_agents, routing_rules,
                 material_traces, pending_operator_requests,
                 processed_to_manufacturing, proc_vars, mfg_vars, mine_vars,
                 dist_vars, retail_vars, sim_vars>>

\* a step that is logged without moving the trace to the agent
add_journey_step_location_kept(trace, stage, agent_id, operation, quantity) ==
  [trace EXCEPT
     !.journey_log = Append(@, [timestamp |-> now, stage |-> stage,
                                agent_id |-> agent_id, operation |-> operation,
                                quantity |-> quantity])]

\* MaterialTrace.add_journey_step; datetime.now() is the clock
add_journey_step(trace, stage, agent_id, operation, quantity) ==
  [trace EXCEPT
     !.journey_log = Append(@, [timestamp |-> now, stage |-> stage,
                                agent_id |-> agent_id, operation |-> operation,
                                quantity |-> quantity]),
     !.current_location = agent_id]

\* material_traces[trace_id] = trace, trace ids being positions
TracePut(traces, trace) ==
  IF trace.trace_id <= Len(traces)
  THEN [traces EXCEPT ![trace.trace_id] = trace]
  ELSE Append(traces, trace)

\* a lookup that finds every agent id
Unregistered_none(registry, agent_id) == FALSE

\* if mining_agent_id not in self.mining_agents
Unregistered(registry, agent_id) == agent_id \notin registry

\* the mine the caller names in inject_raw_materials
MinesInjected == {"MINE_001"}

\* inject_raw_materials with _auto_route_from_mining and
\* _create_processing_request, on the one mine MINE_001
inject_raw_materials(mining_agent_id, ore_type, quantity) ==
  LET op == "inject_raw_materials"
      target_ore == TargetOre(ore_type)
      extracted_quantity == ExtractionAmount(ore_type, quantity)
      mined == [inventory EXCEPT ![target_ore] = @ + extracted_quantity]
      trace == add_journey_step(
                 [trace_id |-> Len(material_traces) + 1,
                  original_material |-> ore_type,
                  original_quantity |-> extracted_quantity,
                  current_material |-> ore_type,
                  current_quantity |-> extracted_quantity,
                  current_location |-> mining_agent_id,
                  journey_log |-> <<>>],
                 "mining", mining_agent_id, "extracted", extracted_quantity)
      processing_agent_id == routing_rules[ore_type]
      held == IF ore_type \in DOMAIN mined THEN mined[ore_type] ELSE 0
      shipment_created == held >= extracted_quantity /\ ore_type \in OreTypes
      queued == ShipmentPut(pending_shipments,
                  [shipment_id |-> Len(pending_shipments) + 1,
                   ore_type |-> ore_type,
                   quantity |-> extracted_quantity,
                   destination_agent_id |-> processing_agent_id,
                   status |-> "pending_pickup"])
      dispatched_shipments == Dispatched(queued)
      shipment == Head(dispatched_shipments)
      receipt == MiningReceipt(raw_material_storage[processing_agent_id],
                               shipment.ore_type, shipment.quantity)
  IN IF Unregistered(mining_agents, mining_agent_id)
     THEN /\ last_call' = Call(op, mining_agent_id, "ValueError", ore_type, "", quantity)
          /\ UNCHANGED <<inventory, ore_reserves, pending_shipments, shipped_materials,
                         raw_material_storage, material_traces,
                         pending_operator_requests>>
     ELSE IF extracted_quantity <= 0
     THEN /\ last_call' = Call(op, mining_agent_id, "RuntimeError", ore_type, "", quantity)
          /\ UNCHANGED <<inventory, ore_reserves, pending_shipments, shipped_materials,
                         raw_material_storage, material_traces,
                         pending_operator_requests>>
     ELSE /\ ore_reserves' = [ore_reserves EXCEPT ![target_ore] = @ - extracted_quantity]
          /\ IF processing_agent_id = NoRoute
                \/ processing_agent_id \notin processing_agents
             THEN /\ inventory' = mined
                  /\ material_traces' = TracePut(material_traces, trace)
                  /\ last_call' = Call(op, mining_agent_id, "no_route", ore_type, "",
                                       extracted_quantity)
                  /\ UNCHANGED <<pending_shipments, shipped_materials,
                                 raw_material_storage, pending_operator_requests>>
             ELSE IF ~shipment_created
             THEN /\ inventory' = mined
                  /\ material_traces' = TracePut(material_traces, trace)
                  /\ last_call' = Call(op, mining_agent_id, "not_shipped", ore_type, "",
                                       extracted_quantity)
                  /\ UNCHANGED <<pending_shipments, shipped_materials,
                                 raw_material_storage, pending_operator_requests>>
             ELSE /\ inventory' = [mined EXCEPT ![ore_type] = @ - extracted_quantity]
                  /\ shipped_materials' = shipped_materials \o dispatched_shipments
                  /\ pending_shipments' = <<>>
                  /\ raw_material_storage' =
                       [raw_material_storage EXCEPT
                          ![processing_agent_id] = receipt.storage]
                  /\ IF receipt.received
                     THEN /\ material_traces' =
                               TracePut(material_traces,
                                 add_journey_step(trace, "processing",
                                   processing_agent_id, "received", shipment.quantity))
                          /\ pending_operator_requests' =
                               Append(pending_operator_requests,
                                 [request_id |-> Len(material_traces) + 1,
                                  trace_id |-> trace.trace_id,
                                  agent_id |-> processing_agent_id,
                                  agent_type |-> "processing",
                                  material_type |-> ore_type,
                                  quantity |-> extracted_quantity,
                                  status |-> "pending"])
                          /\ last_call' = Call(op, processing_agent_id, "received",
                                               ore_type, "", extracted_quantity)
                     ELSE /\ material_traces' = TracePut(material_traces, trace)
                          /\ last_call' = Call(op, processing_agent_id, "rejected",
                                               ore_type, "", extracted_quantity)
                          /\ UNCHANGED pending_operator_requests

InjectRawMaterials ==
  /\ scenario \in OrchestratorScenarios
  /\ \E mining_agent_id \in MinesInjected,
        ore_type \in IF scenario \in {"operator_requests", "operator_completion"}
                     THEN {"Phosphorite Ore"}
                     ELSE IF scenario = "auto_routing" THEN OreTypes
                     ELSE RawMaterials,
        quantity \in IF scenario \in {"auto_routing", "operator_completion"}
                     THEN {3} ELSE {2, 3} :
       inject_raw_materials(mining_agent_id, ore_type, quantity)
  /\ UNCHANGED <<scenario, now, created, equipment_efficiency,
                 processed_material_storage, processing_queue,
                 active_processing_jobs, processing_history,
                 mining_agents, processing_agents, routing_rules,
                 manufacturing_agents, processed_to_manufacturing,
                 mfg_vars, dist_vars, retail_vars, sim_vars>>

\* the request ids the operator answers: the ids issued so far and one that
\* has not been issued
RequestIds == 1..(Len(material_traces) + 1)

\* the decisions the operator sends with a request id
RequestInputs ==
  IF scenario = "operator_completion"
  THEN [selected_recipe : {"Phosphorite_to_PG"},
        processing_priority : {"normal"},
        quality_target : {85},
        batch_size : {2}]
  ELSE [selected_recipe : {"Phosphorite_to_PG", "Unknown_Recipe"},
        processing_priority : {"normal"},
        quality_target : {85},
        batch_size : {2, 4}]

\* position of the first pending request with the id, 0 when there is none
FindRequest(requests, request_id) ==
  IF \E i \in 1..Len(requests) : requests[i].request_id = request_id
  THEN CHOOSE i \in 1..Len(requests) :
         /\ requests[i].request_id = request_id
         /\ \A j \in 1..(i - 1) : requests[j].request_id # request_id
  ELSE 0

\* a removal that drops the oldest pending request
RemoveRequest_oldest(requests, request) == Tail(requests)

\* self.pending_operator_requests.remove(request): the first equal entry goes
RemoveRequest(requests, request) ==
  LET i == CHOOSE k \in 1..Len(requests) :
             /\ requests[k] = request
             /\ \A j \in 1..(k - 1) : requests[j] # request
  IN SubSeq(requests, 1, i - 1) \o SubSeq(requests, i + 1, Len(requests))

\* process_operator_request with _process_processing_request and
\* _simulate_processing_completion; every request is a processing request
process_operator_request(request_id, operator_inputs) ==
  LET op == "process_operator_request"
      found == FindRequest(pending_operator_requests, request_id)
      request == pending_operator_requests[found]
      p == request.agent_id
      result == ProcessMaterialResult(p, request.material_type, request.quantity,
                                      operator_inputs)
      job == NewProcessingJob(p, request.material_type, result.oi)
      processed == add_journey_step(material_traces[request.trace_id],
                     "processing", p, "processed", job.expected_output_quantity)
      manufacturing_agent_id == processed_to_manufacturing[job.expected_output_material]
      routed == /\ manufacturing_agent_id # NoRoute
                /\ manufacturing_agent_id \in manufacturing_agents
      receipt == ProcessingReceipt(raw_material_inventory, job.expected_output_material,
                                   job.expected_output_quantity)
      delivered == [add_journey_step(processed, "manufacturing",
                                     manufacturing_agent_id, "received",
                                     job.expected_output_quantity)
                      EXCEPT !.current_material = job.expected_output_material,
                             !.current_quantity = job.expected_output_quantity]
  IN IF found = 0
     THEN /\ last_call' = [request_id |-> request_id]
                            @@ Call(op, "", "Request not found", "", "", 0)
          /\ UNCHANGED <<raw_material_storage, processing_queue, created,
                         raw_material_inventory, material_traces,
                         pending_operator_requests>>
     ELSE /\ raw_material_storage' =
               [raw_material_storage EXCEPT ![p] = result.storage]
          /\ processing_queue' = [processing_queue EXCEPT ![p] = result.queue]
          /\ created' = [created EXCEPT ![p] = result.created]
          /\ IF result.status # "success"
             THEN UNCHANGED <<raw_material_inventory, material_traces>>
             ELSE IF ~routed
             THEN /\ material_traces' = TracePut(material_traces, processed)
                  /\ UNCHANGED raw_material_inventory
             ELSE /\ raw_material_inventory' = receipt.inventory
                  /\ material_traces' =
                       TracePut(material_traces,
                                IF receipt.received THEN delivered ELSE processed)
          /\ pending_operator_requests' =
               RemoveRequest(pending_operator_requests, request)
          /\ last_call' = [request_id |-> request_id]
                            @@ Call(op, p, result.status, request.material_type,
                                    result.oi.selected_recipe, result.oi.batch_size)

ProcessOperatorRequest ==
  /\ scenario \in {"operator_requests", "operator_completion"}
  /\ \E request_id \in RequestIds, operator_inputs \in RequestInputs :
       process_operator_request(request_id, operator_inputs)
  /\ UNCHANGED <<scenario, now, equipment_efficiency, processed_material_storage,
                 active_processing_jobs, processing_history,
                 mfg_created, production_line_efficiency, finished_goods_inventory,
                 production_queue, active_production_jobs, production_history,
                 pending_product_shipments,
                 mining_agents, processing_agents, routing_rules,
                 manufacturing_agents, processed_to_manufacturing,
                 mine_vars, dist_vars, retail_vars, sim_vars>>

\* time passes between calls; the clock is read only for work in progress
\* and for the steps of a trace; a shipment may be on the road for longer than
\* the longest estimate of its zone
Tick ==
  /\ scenario \in {"manufacturing_shipping", "distribution_delivery",
                   "operator_requests", "operator_completion"}
                   \cup ProcJobScenarios \cup MfgJobScenarios
  /\ \/ \E p \in ProcIds : active_processing_jobs[p] # <<>>
     \/ active_production_jobs # <<>>
     \/ active_shipments # <<>>
     \/ pending_operator_requests # <<>>
  /\ now < MaxTime
  /\ \E hours \in IF scenario = "distribution_delivery" THEN {1, 9} ELSE {1} :
       now' = now + hours
  /\ UNCHANGED <<scenario, last_call, proc_vars, mfg_vars, mine_vars, dist_vars,
                 retail_vars, orch_vars,
                 sim_vars>>

\* ---------------------------------------------------- SupplyChainSimulator
\* caps on the requests raised and on the operator inputs accepted
MaxRequests == 2
MaxInputs == 2

\* agents['processing']['recipes']: ratio in percent
simulator_recipes ==
  [Phosphorite_to_PG |->
     [input_material |-> "Phosphorite Ore",
      output_material |-> "PG",
      conversion_ratio |-> 82]]

\* _get_required_inputs('processing', 'transform_ore', context): quality in
\* percent, batch size in tons
RequiredInputs(available_quantity) ==
  [recipe_selection |->
     [type |-> "choice", options |-> {"Phosphorite_to_PG"},
      min |-> 0, max |-> 0, required |-> TRUE],
   quality_target |->
     [type |-> "float", options |-> {}, min |-> 70, max |-> 95,
      required |-> TRUE],
   batch_size |->
     [type |-> "float", options |-> {}, min |-> 1000,
      max |-> available_quantity, required |-> TRUE],
   processing_priority |->
     [type |-> "choice", options |-> {"urgent", "normal", "batch_optimize"},
      min |-> 0, max |-> 0, required |-> TRUE]]

\* create_operator_request('processing', 'transform_ore', context);
\* request ids are REQ_0000, REQ_0001, ... and are kept as numbers
create_operator_request(available_quantity) ==
  /\ operator_requests' =
       Append(operator_requests,
              [request_id |-> Len(operator_requests),
               stage |-> "processing",
               operation |-> "transform_ore",
               available_quantity |-> available_quantity,
               status |-> "pending",
               required_inputs |-> RequiredInputs(available_quantity)])
  /\ last_call' = Call("create_operator_request", "", "pending", "", "",
                       available_quantity)

CreateOperatorRequest ==
  /\ scenario = "simulator"
  /\ Len(operator_requests) < MaxRequests
  /\ \E available_quantity \in {2000, 3000} :
       create_operator_request(available_quantity)
  /\ UNCHANGED <<scenario, now, raw_storage, processed_storage, inputs_accepted,
                 proc_vars, mfg_vars, mine_vars, dist_vars, retail_vars,
                 orch_vars>>

\* a validation that does not look at the range of a number
InputErrors_range_ignored(required_inputs, operator_inputs) ==
  {input_name \in DOMAIN required_inputs :
     LET spec == required_inputs[input_name]
     IN IF input_name \notin DOMAIN operator_inputs
        THEN spec.required
        ELSE spec.type = "choice"
               /\ operator_inputs[input_name] \notin spec.options}

\* _validate_inputs: the inputs for which an error is recorded
InputErrors(required_inputs, operator_inputs) ==
  {input_name \in DOMAIN required_inputs :
     LET spec == required_inputs[input_name]
     IN IF input_name \notin DOMAIN operator_inputs
        THEN spec.required
        ELSE IF spec.type = "choice"
        THEN operator_inputs[input_name] \notin spec.options
        ELSE \/ operator_inputs[input_name] < spec.min
             \/ operator_inputs[input_name] > spec.max}

\* d[key] = value on a dict kept as a function
SimPut(d, key, value) == [k \in DOMAIN d \cup {key} |-> IF k = key THEN value ELSE d[k]]

\* position of the first request with the id, 0 when there is none
FindOperatorRequest(request_id) ==
  IF \E i \in 1..Len(operator_requests) :
       operator_requests[i].request_id = request_id
  THEN CHOOSE i \in 1..Len(operator_requests) :
         /\ operator_requests[i].request_id = request_id
         /\ \A j \in 1..(i - 1) : operator_requests[j].request_id # request_id
  ELSE 0

\* process_operator_input with _process_ore_transformation; processed storage
\* is in 1/10000 ton (tons x percent x percent)
process_operator_input(request_id, operator_inputs) ==
  LET op == "process_operator_input"
      found == FindOperatorRequest(request_id)
      request == operator_requests[found]
      recipe_data == simulator_recipes[operator_inputs.recipe_selection]
      batch_size == operator_inputs.batch_size
      output_quantity == batch_size * recipe_data.conversion_ratio
                           * operator_inputs.quality_target
      input_material == recipe_data.input_material
      output_material == recipe_data.output_material
      opened == IF input_material \in DOMAIN raw_storage
                THEN raw_storage
                ELSE SimPut(raw_storage, input_material, request.available_quantity)
      credited == IF output_material \in DOMAIN processed_storage
                  THEN processed_storage
                  ELSE SimPut(processed_storage, output_material, 0)
      called(status) == [request_id |-> request_id, inputs |-> operator_inputs]
                          @@ Call(op, "", status, "", "", 0)
  IN IF found = 0
     THEN /\ last_call' = called("Request not found")
          /\ UNCHANGED sim_vars
     ELSE IF InputErrors(request.required_inputs, operator_inputs) # {}
     THEN /\ last_call' = called("Invalid inputs")
          /\ UNCHANGED sim_vars
     ELSE /\ raw_storage' =
               SimPut(opened, input_material, opened[input_material] - batch_size)
          /\ processed_storage' =
               SimPut(credited, output_material,
                      credited[output_material] + output_quantity)
          /\ operator_requests' =
               [operator_requests EXCEPT ![found].status = "completed"]
          /\ inputs_accepted' = inputs_accepted + 1
          /\ last_call' = called("success")

\* the payloads the operator sends: complete ones, and ones with a field left out
OperatorPayloads ==
  LET fields == {"recipe_selection", "quality_target", "batch_size",
                 "processing_priority"}
      complete == [recipe_selection |-> "Phosphorite_to_PG",
                   quality_target |-> 85, batch_size |-> 1000,
                   processing_priority |-> "normal"]
  IN [recipe_selection : {"Phosphorite_to_PG", "Phosphorite_to_DAP"},
      quality_target : {60, 85},
      batch_size : {500, 1000, 2500},
      processing_priority : {"normal", "whenever"}]
       \cup {[f \in fields \ {left_out} |-> complete[f]] : left_out \in fields}

ProcessOperatorInput ==
  /\ scenario = "simulator"
  /\ inputs_accepted < MaxInputs
  /\ \E request_id \in 0..Len(operator_requests),
        operator_inputs \in OperatorPayloads :
       process_operator_input(request_id, operator_inputs)
  /\ UNCHANGED <<scenario, now, proc_vars, mfg_vars, mine_vars, dist_vars,
                 retail_vars, orch_vars>>

\* ---------------------------------------------------------- specification
\* which part of the system the caller drives
Scenarios == {"processing_intake", "manufacturing_intake", "manufacturing_shipping",
              "mining", "distribution_orders", "distribution_delivery", "retail",
              "orchestrator"}
               \cup ProcJobScenarios \cup MfgJobScenarios

\* every agent and the orchestrator as their constructors leave them
Construction ==
  /\ now = 0
  /\ last_call = Call("__init__", "", "", "", "", 0)
  /\ created = [p \in ProcIds |-> 0]
  /\ equipment_efficiency \in [ProcIds -> [MethodSet -> EfficiencyPcts]]
  /\ \A p \in ProcIds : \A m \in MethodSet :
       (scenario # "processing_intake" \/ p \notin DrivenProcIds
          \/ m # processing_methods[1])
         => equipment_efficiency[p][m] = 100
  /\ raw_material_storage = [p \in ProcIds |-> [m \in RawMaterials |-> 0]]
  /\ processed_material_storage = [p \in ProcIds |-> [m \in ProcessedMaterials |-> 0]]
  /\ processing_queue = [p \in ProcIds |-> <<>>]
  /\ active_processing_jobs = [p \in ProcIds |-> <<>>]
  /\ processing_history = [p \in ProcIds |-> <<>>]
  /\ mfg_created = 0
  /\ production_line_efficiency \in [LineSet -> LineEfficiencyPcts]
  /\ \A l \in LineSet :
       (scenario # "manufacturing_intake" \/ l # production_lines[1])
         => production_line_efficiency[l] = 98
  /\ raw_material_inventory = [m \in MfgMaterials |-> 0]
  /\ finished_goods_inventory = [m \in Products |-> 0]
  /\ production_queue = <<>>
  /\ active_production_jobs = <<>>
  /\ production_history = <<>>
  /\ pending_product_shipments = <<>>
  /\ inventory = [o \in OreTypes |-> 0]
  /\ ore_reserves \in ReserveDraws
  /\ scenario = "auto_routing" <=> ore_reserves["Phosphorite Ore"] = 8
  /\ scenario \notin {"mining", "auto_routing"}
       => ore_reserves["Phosphorite Ore"] = 5
  /\ pending_shipments = <<>>
  /\ shipped_materials = <<>>
  /\ current_inventory = [m \in DistProducts |-> 0]
  /\ dist_pending_shipments = <<>>
  /\ active_shipments = <<>>
  /\ shipment_history = <<>>
  /\ total_shipments = 0
  /\ on_time_deliveries = 0
  /\ product_inventory = [m \in DistProducts |-> 0]
  /\ product_prices = [m \in DistProducts |-> NoPrice]
  /\ active_orders = <<>>
  /\ sales_history = <<>>
  /\ retail_orders = 0
  /\ mining_agents = {}
  /\ processing_agents = {}
  /\ routing_rules = [o \in RawMaterials |-> NoRoute]
  /\ material_traces = <<>>
  /\ pending_operator_requests = <<>>
  /\ manufacturing_agents = {}
  /\ processed_to_manufacturing = [m \in ProcessedMaterials |-> NoRoute]
  /\ operator_requests = <<>>
  /\ raw_storage = <<>>
  /\ processed_storage = <<>>
  /\ inputs_accepted = 0

Init ==
  /\ scenario \in Scenarios
  /\ Construction

Next ==
  \/ Tick
  \/ ReceiveShipmentFromMining
  \/ ProcessingProcessMaterial
  \/ RunProcessingOperations
  \/ ReceiveShipmentFromProcessing
  \/ ManufacturingProcessMaterial
  \/ RunManufacturingOperations
  \/ CreateShipmentToDistribution
  \/ MiningProcessMaterial
  \/ CreateShipmentToProcessing
  \/ MiningProcessShipments
  \/ DistributionProcessMaterial
  \/ CreateShippingOrder
  \/ DistributionProcessShipments
  \/ CompleteShipment
  \/ RetailReceiveShipment
  \/ RetailProcessMaterial
  \/ CompleteDelivery
  \/ RegisterMiningAgent
  \/ RegisterProcessingAgent
  \/ InjectRawMaterials

Spec == Init /\ [][Next]_vars

\* the orchestrator with one mine, one plant and one factory, and an operator
\* who answers the requests it raises
OperatorInit ==
  /\ scenario = "operator_requests"
  /\ Construction

OperatorSpec ==
  OperatorInit
    /\ [][\/ Tick
          \/ RegisterMiningAgent
          \/ RegisterProcessingAgent
          \/ RegisterManufacturingAgent
          \/ InjectRawMaterials
          \/ ProcessOperatorRequest]_vars

\* the factory whose caller keeps calling run_manufacturing_operations while
\* time passes
ProductionInit ==
  /\ scenario = "manufacturing_lines"
  /\ Construction

ProductionSpec ==
  ProductionInit
    /\ [][\/ Tick
          \/ ReceiveShipmentFromProcessing
          \/ ManufacturingProcessMaterial
          \/ RunManufacturingOperations]_vars
    /\ WF_vars(Tick)
    /\ WF_vars(RunManufacturingOperations)

\* the shop's price calculation for orders of every size
PricingInit ==
  /\ scenario = "pricing"
  /\ Construction

PricingSpec == PricingInit /\ [][CalculateOrderPrice]_vars

\* the orchestrator with the plant whose queue run_processing_operations works
\* off after the operator answered
CompletionInit ==
  /\ scenario = "operator_completion"
  /\ Construction

CompletionSpec ==
  CompletionInit
    /\ [][\/ Tick
          \/ RegisterMiningAgent
          \/ RegisterProcessingAgent
          \/ RegisterManufacturingAgent
          \/ InjectRawMaterials
          \/ ProcessOperatorRequest
          \/ RunProcessingOperations]_vars

\* the orchestrator routing ore from a mine whose shipments are also created
\* by its caller
RoutingInit ==
  /\ scenario = "auto_routing"
  /\ Construction

RoutingSpec ==
  RoutingInit
    /\ [][\/ RegisterMiningAgent
          \/ RegisterProcessingAgent
          \/ CreateShipmentToProcessing
          \/ InjectRawMaterials]_vars

\* the distribution centre with more orders than one dispatch takes
BacklogInit ==
  /\ scenario = "distribution_backlog"
  /\ Construction

BacklogSpec ==
  BacklogInit
    /\ [][\/ DistributionProcessMaterial
          \/ CreateShippingOrder
          \/ DistributionProcessShipments]_vars

\* the simulator and an operator who answers the requests it raises
SimulatorInit ==
  /\ scenario = "simulator"
  /\ Construction

SimulatorSpec ==
  SimulatorInit
    /\ [][\/ CreateOperatorRequest
          \/ ProcessOperatorInput]_vars

\* ------------------------------------------------------------------ claims
\* the step is a call of op (every call records itself; only Tick moves the clock)
Called(op) == last_call'.op = op /\ now' = now

JobsOf(p) == processing_queue[p] \o active_processing_jobs[p] \o processing_history[p]
MfgJobs == production_queue \o active_production_jobs \o production_history

\* C1: a successful enqueue takes the job's full input out of the agent's raw
\* storage in the same call (processing: the batch; manufacturing: batch x ratio
\* of every input), and an enqueue made right after a successful one whose batch
\* is more than what is left returns an error, adds no job and reserves nothing.
C1_ReservedAtEnqueue ==
  [][/\ Called("ProcessingAgent.process_material") =>
          LET p == last_call'.agent
              m == last_call'.material
              b == last_call'.quantity
          IN /\ last_call'.status = "success" =>
                  /\ raw_material_storage'[p][m] = raw_material_storage[p][m] - b
                  /\ Len(processing_queue'[p]) = Len(processing_queue[p]) + 1
             /\ (/\ last_call.op = "ProcessingAgent.process_material"
                 /\ last_call.status = "success"
                 /\ last_call.agent = p /\ last_call.material = m
                 /\ b > raw_material_storage[p][m]) =>
                  /\ last_call'.status = "error"
                  /\ processing_queue' = processing_queue
                  /\ raw_material_storage' = raw_material_storage
     /\ Called("ManufacturingAgent.process_material") =>
          LET r == last_call'.recipe
              b == last_call'.quantity
          IN /\ last_call'.status = "success" =>
                  /\ \A m \in MfgMaterials :
                       raw_material_inventory'[m] =
                         raw_material_inventory[m]
                           - RequiredQuantity(manufacturing_recipes[r], b, m)
                  /\ Len(production_queue') = Len(production_queue) + 1
             /\ (/\ last_call.op = "ManufacturingAgent.process_material"
                 /\ last_call.status = "success"
                 /\ r \in MfgRecipeNames
                 /\ \E m \in MfgMaterials :
                      RequiredQuantity(manufacturing_recipes[r], b, m)
                        > raw_material_inventory[m]) =>
                  /\ last_call'.status = "error"
                  /\ production_queue' = production_queue
                  /\ raw_material_inventory' = raw_material_inventory
    ]_vars

\* one job is queued and holds its batch; the enqueue made right after it asked
\* for more than the stock that was left and was refused
C1_Witness ==
  /\ last_call.op = "ProcessingAgent.process_material"
  /\ last_call.status = "error"
  /\ last_call.recipe = "Phosphorite_to_PG"
  /\ Len(processing_queue[last_call.agent]) = 1
  /\ raw_material_storage[last_call.agent][last_call.material] > 0
  /\ raw_material_storage[last_call.agent][last_call.material] < last_call.quantity

\* C2: every agent's total holding stays within its capacity.
C2_CapacityInvariant ==
  /\ Total(inventory) <= mine_capacity
  /\ \A p \in ProcIds :
       Total(raw_material_storage[p]) * Unit + Total(processed_material_storage[p])
         <= processing_capacity * Unit
  /\ Total(raw_material_inventory) * (Unit \div Ton) + Total(finished_goods_inventory)
       <= manufacturing_capacity * Unit
  /\ Total(current_inventory) <= warehouse_capacity
  /\ Total(product_inventory) <= store_capacity

\* C3: a successful shipment creation takes exactly the shipment quantity out
\* of the origin's stock of that material and leaves exactly one more pending
\* shipment, the new one, carrying that quantity.
C3_ShipmentReserved ==
  [][/\ (Called("create_shipment_to_processing") /\ last_call'.status = "True") =>
          /\ inventory'[last_call'.material]
               = inventory[last_call'.material] - last_call'.quantity
          /\ Len(pending_shipments') = Len(pending_shipments) + 1
          /\ pending_shipments'[Len(pending_shipments')].quantity = last_call'.quantity
          /\ SubSeq(pending_shipments', 1, Len(pending_shipments)) = pending_shipments
     /\ (Called("create_shipment_to_distribution") /\ last_call'.status = "True") =>
          /\ finished_goods_inventory'[last_call'.material]
               = finished_goods_inventory[last_call'.material] - last_call'.quantity
          /\ Len(pending_product_shipments') = Len(pending_product_shipments) + 1
          /\ pending_product_shipments'[Len(pending_product_shipments')].quantity
               = last_call'.quantity
          /\ SubSeq(pending_product_shipments', 1, Len(pending_product_shipments))
               = pending_product_shipments
     /\ (Called("create_shipping_order") /\ last_call'.status = "True") =>
          /\ current_inventory'[last_call'.material]
               = current_inventory[last_call'.material] - last_call'.quantity
          /\ Len(dist_pending_shipments') = Len(dist_pending_shipments) + 1
          /\ dist_pending_shipments'[Len(dist_pending_shipments')].quantity
               = last_call'.quantity
          /\ SubSeq(dist_pending_shipments', 1, Len(dist_pending_shipments))
               = dist_pending_shipments
    ]_vars

\* what a receipt added to the stock of the shipped material, against the
\* headroom before the call
ReceiptAsClaimed(before, after, limit, material, quantity, status) ==
  LET headroom == limit - Total(before)
      increase == after[material] - before[material]
  IN /\ increase = Min(quantity, headroom)
     /\ status = "False" <=> increase = 0

\* C4 as stated: whatever the material, a receipt adds min(quantity, headroom)
\* and reports rejection exactly when it added nothing.
C4_AnyMaterial ==
  [][/\ Called("receive_shipment_from_mining") =>
          ReceiptAsClaimed(raw_material_storage[last_call'.agent],
                           raw_material_storage'[last_call'.agent],
                           raw_storage_capacity, last_call'.material,
                           last_call'.quantity, last_call'.status)
     /\ Called("receive_shipment_from_processing") =>
          ReceiptAsClaimed(raw_material_inventory, raw_material_inventory',
                           raw_material_capacity, last_call'.material,
                           last_call'.quantity, last_call'.status)
     /\ Called("receive_shipment_from_distribution") =>
          ReceiptAsClaimed(product_inventory, product_inventory',
                           store_capacity, last_call'.material,
                           last_call'.quantity, last_call'.status)
    ]_vars

\* C4: for a material some recipe of the destination takes as input (any product
\* at the retail store), a receipt adds min(quantity, headroom) to the stock of
\* that material and reports rejection exactly when it added nothing; a material
\* no recipe takes is rejected and nothing is stored.
C4_AcceptedUpToHeadroom ==
  [][/\ Called("receive_shipment_from_mining") =>
          IF \E r \in RecipeNames :
               transformation_recipes[r].input_material = last_call'.material
          THEN ReceiptAsClaimed(raw_material_storage[last_call'.agent],
                                raw_material_storage'[last_call'.agent],
                                raw_storage_capacity, last_call'.material,
                                last_call'.quantity, last_call'.status)
          ELSE /\ last_call'.status = "False"
               /\ raw_material_storage' = raw_material_storage
     /\ Called("receive_shipment_from_processing") =>
          IF \E r \in MfgRecipeNames :
               RequiredQuantity(manufacturing_recipes[r], 1, last_call'.material) > 0
          THEN ReceiptAsClaimed(raw_material_inventory, raw_material_inventory',
                                raw_material_capacity, last_call'.material,
                                last_call'.quantity, last_call'.status)
          ELSE /\ last_call'.status = "False"
               /\ raw_material_inventory' = raw_material_inventory
     /\ Called("receive_shipment_from_distribution") =>
          ReceiptAsClaimed(product_inventory, product_inventory',
                           store_capacity, last_call'.material,
                           last_call'.quantity, last_call'.status)
    ]_vars

\* a shipment larger than the room left was accepted in part and filled the
\* raw storage of the plant
C4_Witness ==
  /\ last_call.op = "receive_shipment_from_mining"
  /\ last_call.status = "True"
  /\ last_call.quantity = 5
  /\ Total(raw_material_storage[last_call.agent]) = raw_storage_capacity

\* C5: no two distinct jobs of one agent, in its queue, active set or history,
\* share a job_id.
C5_UniqueJobIds ==
  /\ \A p \in ProcIds :
       \A i, j \in 1..Len(JobsOf(p)) :
         i # j => JobsOf(p)[i].job_id # JobsOf(p)[j].job_id
  /\ \A i, j \in 1..Len(MfgJobs) :
       i # j => MfgJobs[i].job_id # MfgJobs[j].job_id

\* C6: no two active jobs of an agent need the same processing method or
\* production line.
C6_OneJobPerLine ==
  /\ \A p \in ProcIds :
       \A i, j \in 1..Len(active_processing_jobs[p]) :
         i # j =>
           transformation_recipes[active_processing_jobs[p][i].recipe_name].required_method
             # transformation_recipes[active_processing_jobs[p][j].recipe_name].required_method
  /\ \A i, j \in 1..Len(active_production_jobs) :
       i # j =>
         manufacturing_recipes[active_production_jobs[i].recipe_name].required_line
           # manufacturing_recipes[active_production_jobs[j].recipe_name].required_line

\* position of a priority class in the order urgent, normal, batch
ClassRank(priority) ==
  IF priority = "urgent" THEN 0 ELSE IF priority = "normal" THEN 1 ELSE 2

\* C7: every job queue is ordered by priority class (urgent, normal, batch) and,
\* within a class, by the order in which the jobs were enqueued.
C7_QueueOrder ==
  /\ \A p \in ProcIds :
       \A i, j \in 1..Len(processing_queue[p]) :
         i < j =>
           \/ ClassRank(processing_queue[p][i].priority)
                < ClassRank(processing_queue[p][j].priority)
           \/ /\ processing_queue[p][i].priority = processing_queue[p][j].priority
              /\ processing_queue[p][i].created_at < processing_queue[p][j].created_at
  /\ \A i, j \in 1..Len(production_queue) :
       i < j =>
         \/ ClassRank(production_queue[i].priority) < ClassRank(production_queue[j].priority)
         \/ /\ production_queue[i].priority = production_queue[j].priority
            /\ production_queue[i].created_at < production_queue[j].created_at

\* an urgent job enqueued last stands ahead of two normal jobs, which keep
\* their order of arrival
C7_Witness ==
  /\ Len(processing_queue["PROC_001"]) = 3
  /\ processing_queue["PROC_001"][1].priority = "urgent"
  /\ processing_queue["PROC_001"][1].created_at = 3
  /\ processing_queue["PROC_001"][2].priority = "normal"
  /\ processing_queue["PROC_001"][3].priority = "normal"

\* C8: an enqueue with an unknown recipe, an input in short supply or a line
\* that is not operational returns status error, and an enqueue that returns
\* error leaves the agent as it was: no job, no queue change, no input deducted
\* (none of the inputs of a recipe with several inputs).
C8_FailedEnqueueChangesNothing ==
  [][/\ Called("ProcessingAgent.process_material") =>
          LET p == last_call'.agent
              m == last_call'.material
              r == last_call'.recipe
          IN /\ (\/ r \notin RecipeNames
                 \/ raw_material_storage[p][m] < last_call'.quantity
                 \/ transformation_recipes[r].required_method \notin MethodSet)
                  => last_call'.status = "error"
             /\ last_call'.status = "error" =>
                  /\ raw_material_storage' = raw_material_storage
                  /\ processing_queue' = processing_queue
                  /\ active_processing_jobs' = active_processing_jobs
                  /\ processing_history' = processing_history
     /\ Called("ManufacturingAgent.process_material") =>
          LET r == last_call'.recipe
          IN /\ (\/ r \notin MfgRecipeNames
                 \/ \E m \in MfgMaterials :
                      raw_material_inventory[m]
                        < RequiredQuantity(manufacturing_recipes[r], last_call'.quantity, m)
                 \/ manufacturing_recipes[r].required_line \notin LineSet)
                  => last_call'.status = "error"
             /\ last_call'.status = "error" =>
                  /\ raw_material_inventory' = raw_material_inventory
                  /\ production_queue' = production_queue
                  /\ active_production_jobs' = active_production_jobs
                  /\ production_history' = production_history
    ]_vars

\* a recipe with two inputs was refused while the first input was in stock and
\* only the second was short
C8_Witness ==
  /\ last_call.op = "ManufacturingAgent.process_material"
  /\ last_call.status = "error"
  /\ last_call.recipe = "PG_to_Fertilizer"
  /\ raw_material_inventory["PG"] >= last_call.quantity * Ton
  /\ raw_material_inventory["additives"] < last_call.quantity * Ton
  /\ production_queue = <<>>

\* C9: no entry of any inventory or storage mapping is negative.
C9_NoNegativeStock ==
  /\ \A o \in OreTypes : inventory[o] >= 0 /\ ore_reserves[o] >= 0
  /\ \A p \in ProcIds :
       /\ \A m \in RawMaterials : raw_material_storage[p][m] >= 0
       /\ \A m \in ProcessedMaterials : processed_material_storage[p][m] >= 0
  /\ \A m \in MfgMaterials : raw_material_inventory[m] >= 0
  /\ \A m \in Products : finished_goods_inventory[m] >= 0
  /\ \A m \in DistProducts : current_inventory[m] >= 0 /\ product_inventory[m] >= 0

\* a shipping order for more than the warehouse holds was refused with the
\* stock left as it was
C9_Witness ==
  /\ last_call.op = "create_shipping_order"
  /\ last_call.status = "False"
  /\ current_inventory[last_call.material] > 0
  /\ current_inventory[last_call.material] < last_call.quantity

\* C10: a registration sets every routing key it names to the destination it
\* names, whatever the key held before, and an injection hands the ore to the
\* destination the key holds at that moment and to no other plant.
C10_LatestRouteWins ==
  [][/\ \A routes \in RouteTables :
          (Called("register_mining_agent")
             /\ register_mining_agent("MINE_001", routes)) =>
            \A o \in DOMAIN routes : routing_rules'[o] = routes[o]
     /\ (Called("inject_raw_materials")
           /\ last_call'.status \in {"received", "rejected"}) =>
          /\ last_call'.agent = routing_rules[last_call'.material]
          /\ \A p \in ProcIds \ {last_call'.agent} :
               raw_material_storage'[p] = raw_material_storage[p]
          /\ last_call'.status = "received" =>
               raw_material_storage'[last_call'.agent][last_call'.material]
                 > raw_material_storage[last_call'.agent][last_call'.material]
    ]_vars

\* Phosphorite Ore went to PROC_001 under the first registration; after the key
\* was registered again for PROC_002 an injection was received by PROC_002
C10_Witness ==
  /\ routing_rules["Phosphorite Ore"] = "PROC_002"
  /\ raw_material_storage["PROC_001"]["Phosphorite Ore"] > 0
  /\ last_call.op = "inject_raw_materials"
  /\ last_call.status = "received"
  /\ last_call.agent = "PROC_002"
  /\ last_call.material = "Phosphorite Ore"

\* the journey log of a trace
JourneyLog(traces, t) == traces[t].journey_log

\* C11: the journey log of every trace only grows by appending, the
\* timestamps of its steps never decrease along the log, and the trace's
\* current location is the agent of its last step
C11_JourneyLogAppendOnly ==
  [][/\ Len(material_traces') >= Len(material_traces)
     /\ \A t \in 1..Len(material_traces) :
          /\ Len(JourneyLog(material_traces', t))
               >= Len(JourneyLog(material_traces, t))
          /\ SubSeq(JourneyLog(material_traces', t), 1,
                    Len(JourneyLog(material_traces, t)))
               = JourneyLog(material_traces, t)
     /\ \A t \in 1..Len(material_traces') :
          LET log == JourneyLog(material_traces', t)
          IN /\ \A i \in 1..(Len(log) - 1) :
                  log[i].timestamp <= log[i + 1].timestamp
             /\ log # <<>>
                  => material_traces'[t].current_location = log[Len(log)].agent_id
    ]_vars

\* a trace that went from the mine through the plant to the factory, its
\* steps logged at different times
C11_Witness ==
  \E t \in 1..Len(material_traces) :
    LET log == JourneyLog(material_traces, t)
    IN /\ Len(log) = 4
       /\ log[1].timestamp < log[3].timestamp
       /\ material_traces[t].current_location = "MFG_001"

\* the ids of the pending operator requests
PendingIds(requests) == {requests[i].request_id : i \in 1..Len(requests)}

\* the requests other than the one with the id, in their order
RequestsWithout(requests, id) ==
  SelectSeq(requests, LAMBDA r : r.request_id # id)

\* C12: answering a pending request removes exactly that request; answering
\* an id that is not pending (a second answer to the same id) returns
\* 'Request not found' and changes nothing; every other operation leaves
\* the pending requests pending
C12_RequestRemovedOnce ==
  [][/\ (Called("process_operator_request")
          /\ last_call'.request_id \in PendingIds(pending_operator_requests))
         => /\ pending_operator_requests'
                 = RequestsWithout(pending_operator_requests,
                                   last_call'.request_id)
            /\ Len(pending_operator_requests')
                 = Len(pending_operator_requests) - 1
     /\ (Called("process_operator_request")
          /\ last_call'.request_id \notin PendingIds(pending_operator_requests))
         => /\ last_call'.status = "Request not found"
            /\ UNCHANGED <<proc_vars, mfg_vars, mine_vars, dist_vars,
                           retail_vars, orch_vars,
                 sim_vars>>
     /\ ~Called("process_operator_request")
         => SubSeq(pending_operator_requests', 1,
                   Len(pending_operator_requests))
              = pending_operator_requests
    ]_vars

\* a request answered a second time while another request is still pending
C12_Witness ==
  /\ last_call.op = "process_operator_request"
  /\ last_call.status = "Request not found"
  /\ last_call.request_id <= Len(material_traces)
  /\ \E i \in 1..Len(JourneyLog(material_traces, last_call.request_id)) :
       JourneyLog(material_traces, last_call.request_id)[i].operation
         = "processed"
  /\ pending_operator_requests # <<>>

\* the ore has no destination: no route, or a route to an agent that is not a
\* registered processing agent
NoDestination(ore_type) ==
  \/ routing_rules[ore_type] = NoRoute
  \/ routing_rules[ore_type] \notin processing_agents

\* C13: an injection of an ore that has no destination returns a trace id
\* without raising; what was extracted stays in the mine's inventory, no
\* shipment and no operator request is created, and the only step of the
\* new trace is the extraction
C13_NoRouteStalls ==
  [][(Called("inject_raw_materials")
        /\ MinesInjected \subseteq mining_agents
        /\ NoDestination(last_call'.material))
       => /\ last_call'.status = "no_route"
          /\ Len(material_traces') = Len(material_traces) + 1
          /\ Total(inventory') = Total(inventory) + last_call'.quantity
          /\ last_call'.quantity > 0
          /\ UNCHANGED <<pending_shipments, shipped_materials,
                         pending_operator_requests>>
          /\ LET log == JourneyLog(material_traces', Len(material_traces'))
             IN Len(log) = 1 /\ log[1].operation = "extracted"
    ]_vars

\* C14: an injection that names a mine that is not registered raises at once
\* and changes nothing
C14_UnregisteredMineRaises ==
  [][(Called("inject_raw_materials") /\ MinesInjected \cap mining_agents = {})
       => /\ last_call'.status = "ValueError"
          /\ UNCHANGED <<proc_vars, mfg_vars, mine_vars, dist_vars,
                         retail_vars, orch_vars,
                 sim_vars>>
    ]_vars

\* an injection was refused for its mine while a plant was already registered
C14_Witness ==
  /\ last_call.op = "inject_raw_materials"
  /\ last_call.status = "ValueError"
  /\ last_call.agent \notin mining_agents
  /\ processing_agents # {}

\* min(q, extraction_rate, reserves of the ore, capacity - total inventory)
C15_Amount(ore, q) ==
  Min(Min(q, extraction_rate),
      Min(ore_reserves[ore], mine_capacity - Total(inventory)))

\* C15: MiningAgent.process_material(ore, q) with q > 0 and ore one of the
\* mine's ore types extracts exactly min(q, extraction_rate, reserves of the
\* ore, capacity - total inventory); when that amount is positive the
\* inventory of the ore grows and its reserves shrink by it, otherwise
\* nothing changes and the status is not success
C15_ExtractsTheMinimum ==
  [][(Called("MiningAgent.process_material")
        /\ last_call'.requested_material \in OreTypes
        /\ last_call'.requested_quantity > 0)
       => LET ore == last_call'.requested_material
              amount == C15_Amount(ore, last_call'.requested_quantity)
          IN IF amount > 0
             THEN /\ last_call'.status = "success"
                  /\ last_call'.quantity = amount
                  /\ inventory' = [inventory EXCEPT ![ore] = @ + amount]
                  /\ ore_reserves' = [ore_reserves EXCEPT ![ore] = @ - amount]
             ELSE /\ last_call'.status # "success"
                  /\ UNCHANGED <<inventory, ore_reserves>>
    ]_vars

\* an extraction cut short by the room left in the mine's storage alone
C15_Witness ==
  /\ last_call.op = "MiningAgent.process_material"
  /\ last_call.status = "success"
  /\ last_call.requested_material \in OreTypes
  /\ last_call.quantity < Min(last_call.requested_quantity, extraction_rate)
  /\ ore_reserves[last_call.requested_material] > 0
  /\ Total(inventory) = mine_capacity

\* the job the plant has just enqueued: the one stamped with the new count
C16_NewJob(p) ==
  LET i == CHOOSE i \in 1..Len(processing_queue'[p]) :
             processing_queue'[p][i].created_at = created'[p]
  IN processing_queue'[p][i]

\* C16: a processing job enqueued with batch size b, conversion ratio r,
\* equipment efficiency e and quality target t records
\* expected_output_quantity = b*r*e, processing_time_hours = the recipe's
\* processing time x (t/0.85) and energy_cost = energy_cost_per_ton x (t/0.85) x b
\* (r and e in percent, times and costs in 1/85)
C16_JobParameters ==
  [][(Called("ProcessingAgent.process_material")
        /\ last_call'.status = "success")
       => LET p == last_call'.agent
              recipe == transformation_recipes[last_call'.recipe]
              b == last_call'.quantity
              t == last_call'.quality_target
              e == equipment_efficiency[p][recipe.required_method]
              job == C16_NewJob(p)
          IN /\ Len(processing_queue'[p]) = Len(processing_queue[p]) + 1
             /\ job.expected_output_quantity = b * recipe.conversion_ratio * e
             /\ job.processing_time_hours = recipe.processing_time_hours * t
             /\ job.energy_cost = recipe.energy_cost_per_ton * t * b
    ]_vars

\* a job was enqueued above the reference quality on equipment below full
\* efficiency
C16_Witness ==
  /\ last_call.op = "ProcessingAgent.process_material"
  /\ last_call.status = "success"
  /\ last_call.quality_target = 90
  /\ \E i \in 1..Len(processing_queue[last_call.agent]) :
       LET job == processing_queue[last_call.agent][i]
       IN /\ job.target_quality = 90
          /\ job.expected_output_quantity < job.input_quantity * 100 * 100
          /\ equipment_efficiency[last_call.agent][
                transformation_recipes[job.recipe_name].required_method] = 85

\* the jobs a run has moved to the history
NewlyFinished(before, after) == SubSeq(after, Len(before) + 1, Len(after))

\* the expected output, per material m, of those of the jobs that completed
ExpectedOf(jobs, m, field) ==
  SumValues([i \in 1..Len(jobs) |->
               IF jobs[i][field] = m /\ jobs[i].status = "completed"
               THEN jobs[i].expected_output_quantity ELSE 0],
            1..Len(jobs))

\* C17: what a run credits to processed storage for the processing jobs it
\* completes lies within 5% of their expected output, and what a run credits
\* to finished goods for the manufacturing jobs that pass quality control
\* lies within 3% of theirs (storage in 1/100 of the expected quantity)
C17_OutputWithinTolerance ==
  [][/\ Called("run_processing_operations")
         => LET p == last_call'.agent
                done == NewlyFinished(processing_history[p], processing_history'[p])
            IN \A m \in ProcessedMaterials :
                 LET credited == processed_material_storage'[p][m]
                                   - processed_material_storage[p][m]
                     expected == ExpectedOf(done, m, "expected_output_material")
                 IN /\ credited >= 95 * expected
                    /\ credited <= 105 * expected
     /\ Called("run_manufacturing_operations")
         => LET done == NewlyFinished(production_history, production_history')
            IN \A m \in Products :
                 LET credited == finished_goods_inventory'[m]
                                   - finished_goods_inventory[m]
                     expected == ExpectedOf(done, m, "expected_output_product")
                 IN /\ credited >= 97 * expected
                    /\ credited <= 103 * expected
    ]_vars

\* a run has just completed a processing job and credited more than the
\* job's expected output
C17_Witness ==
  /\ last_call.op = "run_processing_operations"
  /\ last_call.quantity > 0
  /\ \E i \in 1..Len(processing_history[last_call.agent]) :
       LET job == processing_history[last_call.agent][i]
       IN /\ job.completed_at = now
          /\ job.actual_output_quantity > 100 * job.expected_output_quantity
          /\ processed_material_storage[last_call.agent][
                job.expected_output_material] >= job.actual_output_quantity

\* the production line a job runs on
LineOf(job) == manufacturing_recipes[job.recipe_name].required_line

\* C18: a manufacturing job that fails quality control is moved to the
\* production history with status quality_control_failed and actual output 0;
\* the run adds nothing to finished goods for it and returns none of its
\* inputs, and it goes on to start the jobs queued behind it
C18_FailedQualityControl ==
  [][Called("run_manufacturing_operations")
       => LET done == NewlyFinished(production_history, production_history')
          IN /\ last_call'.status = "done"
             /\ \A i \in 1..Len(active_production_jobs) :
                  active_production_jobs[i].status # "quality_control_failed"
             /\ \A i \in 1..Len(done) :
                  done[i].status = "quality_control_failed"
                    => /\ done[i].actual_output_quantity = 0
                       /\ \A j \in 1..Len(active_production_jobs') :
                            active_production_jobs'[j].status = "manufacturing"
             /\ \A m \in Products :
                  (\A i \in 1..Len(done) :
                     done[i].expected_output_product = m
                       => done[i].status = "quality_control_failed")
                    => finished_goods_inventory'[m] = finished_goods_inventory[m]
             /\ raw_material_inventory' = raw_material_inventory
             /\ production_queue' # <<>>
                  => \/ Len(active_production_jobs') = Len(production_lines)
                     \/ \E j \in 1..Len(active_production_jobs') :
                          LineOf(active_production_jobs'[j])
                            = LineOf(Head(production_queue'))
    ]_vars

\* a job failed quality control and the run that booked the failure started
\* the job queued behind it on the same line
C18_Witness ==
  /\ last_call.op = "run_manufacturing_operations"
  /\ \E i \in 1..Len(production_history), j \in 1..Len(active_production_jobs) :
       /\ production_history[i].status = "quality_control_failed"
       /\ production_history[i].completed_at = now
       /\ active_production_jobs[j].started_at = now
       /\ LineOf(active_production_jobs[j]) = LineOf(production_history[i])
       /\ finished_goods_inventory[production_history[i].expected_output_product] = 0

\* C20: a decision the processing agent rejects (result status error) changes
\* no state, and its request remains in pending_operator_requests
C20_RejectionKeepsRequest ==
  [][(Called("process_operator_request") /\ last_call'.status = "error")
       => /\ pending_operator_requests' = pending_operator_requests
          /\ UNCHANGED <<proc_vars, mfg_vars, mine_vars, dist_vars,
                         retail_vars, orch_vars,
                 sim_vars>>
    ]_vars

\* a required field is missing, a choice is outside its options, or a number
\* is outside [min, max]
FailsValidation(required_inputs, payload) ==
  \E f \in DOMAIN required_inputs :
    \/ required_inputs[f].required /\ f \notin DOMAIN payload
    \/ /\ f \in DOMAIN payload
       /\ required_inputs[f].type = "choice"
       /\ payload[f] \notin required_inputs[f].options
    \/ /\ f \in DOMAIN payload
       /\ required_inputs[f].type = "float"
       /\ \/ payload[f] < required_inputs[f].min
          \/ payload[f] > required_inputs[f].max

\* the request with the id
RequestOf(request_id) == operator_requests[FindOperatorRequest(request_id)]

\* C19: process_operator_input with a payload that fails validation returns
\* an error and mutates nothing: no inventory of an agent changes and the
\* request keeps the status it had
C19_InvalidPayloadMutatesNothing ==
  [][(Called("process_operator_input")
        /\ FindOperatorRequest(last_call'.request_id) # 0
        /\ FailsValidation(RequestOf(last_call'.request_id).required_inputs,
                           last_call'.inputs))
       => /\ last_call'.status = "Invalid inputs"
          /\ UNCHANGED <<sim_vars, proc_vars, mfg_vars, mine_vars, dist_vars,
                         retail_vars, orch_vars>>
    ]_vars

\* a batch size above the quantity available was refused for a pending
\* request after an earlier payload had been accepted
C19_Witness ==
  /\ last_call.op = "process_operator_input"
  /\ last_call.status = "Invalid inputs"
  /\ "batch_size" \in DOMAIN last_call.inputs
  /\ FindOperatorRequest(last_call.request_id) # 0
  /\ last_call.inputs.batch_size
       > RequestOf(last_call.request_id).available_quantity
  /\ RequestOf(last_call.request_id).status = "pending"
  /\ inputs_accepted > 0

\* every shipment the mine has created and not lost: the dispatched ones and
\* the pending ones
MineShipments == shipped_materials \o pending_shipments

\* every record of an order of the distribution centre
DistOrders == dist_pending_shipments \o active_shipments \o shipment_history

\* C21: two shipments created by the mine never have the same shipment_id,
\* and two orders created by the distribution centre (told apart by their
\* creation stamp) never have the same order_id, whatever the interleaving of
\* creations and dispatches
C21_UniqueShipmentIds ==
  /\ \A i, j \in 1..Len(MineShipments) :
       i # j => MineShipments[i].shipment_id # MineShipments[j].shipment_id
  /\ \A i, j \in 1..Len(DistOrders) :
       DistOrders[i].created_at # DistOrders[j].created_at
         => DistOrders[i].order_id # DistOrders[j].order_id

\* C24: DistributionAgent.process_material returns a result with a status for
\* every positive quantity and never raises, also when the warehouse ends up
\* more than 90% full
C24_ReceiptNeverRaises ==
  (last_call.op = "DistributionAgent.process_material" /\ last_call.quantity > 0)
    => last_call.status = "success"

\* the pending orders a dispatch took out of the pending orders
Moved(before, after) ==
  SelectSeq(before, LAMBDA o : \A k \in 1..Len(after) : after[k] # o)

\* C22: DistributionAgent.process_shipments dispatches at most 5 pending
\* orders per call, the ones created earliest: each is set to dispatched and
\* moved from pending to active, and every other pending order stays pending
\* and unchanged; MiningAgent.process_shipments dispatches every pending
\* shipment and leaves none pending
C22_BatchDispatch ==
  [][/\ Called("DistributionAgent.process_shipments")
         => LET moved == Moved(dist_pending_shipments, dist_pending_shipments')
            IN /\ Len(moved) = Min(5, Len(dist_pending_shipments))
               /\ Len(dist_pending_shipments')
                    = Len(dist_pending_shipments) - Len(moved)
               /\ \A k \in 1..Len(dist_pending_shipments') :
                    /\ dist_pending_shipments'[k].status = "pending"
                    /\ \E i \in 1..Len(dist_pending_shipments) :
                         dist_pending_shipments[i] = dist_pending_shipments'[k]
                    /\ \A i \in 1..Len(moved) :
                         moved[i].created_at
                           < dist_pending_shipments'[k].created_at
               /\ \A i \in 1..Len(moved) :
                    \E a \in 1..Len(active_shipments') :
                      /\ active_shipments'[a].order_id = moved[i].order_id
                      /\ active_shipments'[a].created_at = moved[i].created_at
                      /\ active_shipments'[a].status = "dispatched"
     /\ Called("MiningAgent.process_shipments")
         => /\ pending_shipments' = <<>>
            /\ Len(shipped_materials')
                 = Len(shipped_materials) + Len(pending_shipments)
            /\ \A i \in 1..Len(pending_shipments) :
                 shipped_materials'[Len(shipped_materials) + i]
                   = [pending_shipments[i] EXCEPT !.status = "dispatched"]
    ]_vars

\* C23: when the processing plant turns away the shipment of an
\* inject_raw_materials call, the extracted quantity has left the reserves and
\* is neither in the mine's inventory nor in any plant's raw storage, and no
\* operator request is created.
C23_RejectedShipmentIsLost ==
  [][(Called("inject_raw_materials") /\ last_call'.status = "rejected")
       => /\ last_call'.quantity > 0
          /\ Total(ore_reserves') = Total(ore_reserves) - last_call'.quantity
          /\ inventory' = inventory
          /\ raw_material_storage' = raw_material_storage
          /\ pending_operator_requests' = pending_operator_requests]_vars

\* a shipment was turned away by a plant whose raw storage is full
C23_Witness ==
  /\ last_call.op = "inject_raw_materials"
  /\ last_call.status = "rejected"
  /\ last_call.material = "Phosphorite Ore"
  /\ Total(raw_material_storage[last_call.agent]) = raw_storage_capacity

\* C27: the shipment inject_raw_materials hands to the processing plant is the
\* one the call created, with the injected ore and the extracted quantity, and
\* it is addressed to the plant that receives it.
C27_DeliversItsOwnShipment ==
  [][(Called("inject_raw_materials")
      /\ last_call'.status \in {"received", "rejected"})
       => LET shipment == shipped_materials'[Len(shipped_materials) + 1]
          IN /\ shipment.ore_type = last_call'.material
             /\ shipment.quantity = last_call'.quantity
             /\ shipment.destination_agent_id = last_call'.agent]_vars

\* C25: every job a processing plant accepted is in exactly one of
\* processing_queue, active_processing_jobs and processing_history: the three
\* collections hold as many jobs as process_material accepted, each of them once.
C25_EveryJobInOneCollection ==
  \A p \in ProcIds :
    /\ Len(JobsOf(p)) = created[p]
    /\ \A n \in 1..created[p] :
         Cardinality({i \in 1..Len(JobsOf(p)) : JobsOf(p)[i].created_at = n}) = 1

\* the orders the distribution centre holds: pending, active and delivered
HeldOrders ==
  dist_pending_shipments \o active_shipments
    \o SelectSeq(shipment_history, LAMBDA o : o.status = "delivered")

OrderedQuantity(orders) ==
  SumValues([i \in 1..Len(orders) |-> orders[i].quantity], 1..Len(orders))

\* C26: the distribution centre holds every accepted order as pending, active or
\* delivered, and the stock it deducted is the summed quantity of these orders:
\* an accepted create_shipping_order adds one order and deducts its quantity,
\* process_shipments and complete_shipment add and deduct nothing.
C26_OrdersAndStockBalance ==
  [][(\/ Called("create_shipping_order")
      \/ Called("DistributionAgent.process_shipments")
      \/ Called("complete_shipment"))
       => /\ Len(HeldOrders') - Len(HeldOrders) =
               IF last_call'.op = "create_shipping_order"
                  /\ last_call'.status = "True"
               THEN 1 ELSE 0
          /\ OrderedQuantity(HeldOrders') - OrderedQuantity(HeldOrders) =
               Total(current_inventory) - Total(current_inventory')]_vars

\* the most one job of a plant can put out, in 1/1000000 ton: the largest
\* expected output among the operator's decisions with the variability at
\* its upper end
MostOfOneJob(p) ==
  LET expected == {NewProcessingJob(p, "Phosphorite Ore", oi).expected_output_quantity :
                     oi \in {d \in RequestInputs : d.selected_recipe \in RecipeNames}}
      largest == CHOOSE e \in expected : \A other \in expected : other <= e
  IN largest * 105

\* C28: the output of a processing job is credited once: what the manufacturer
\* holds of a processed material together with what the plants hold of it
\* never exceeds what the jobs accepted so far can produce, also after
\* process_operator_request delivered a job's expected output and
\* run_processing_operations completed the same job.
C28_OutputCreditedOnce ==
  \A material \in {"PG"} :
    raw_material_inventory[material] * 100
      + SumValues([p \in ProcIds |-> processed_material_storage[p][material]],
                  ProcIds)
      <= SumValues([p \in ProcIds |-> created[p] * MostOfOneJob(p)], ProcIds)

\* C29: process_operator_input on a request that is already completed does not
\* run the stage again: the simulator's raw and processed storage and the
\* request stay as they are.
C29_CompletedRequestNotRerun ==
  [][(/\ Called("process_operator_input")
      /\ FindOperatorRequest(last_call'.request_id) # 0
      /\ operator_requests[FindOperatorRequest(last_call'.request_id)].status
           = "completed")
       => /\ raw_storage' = raw_storage
          /\ processed_storage' = processed_storage
          /\ operator_requests' = operator_requests]_vars

\* the job the factory accepted as its n-th is among these jobs
HoldsJob(jobs, n) == \E i \in 1..Len(jobs) : jobs[i].created_at = n

\* C30: a queued manufacturing job is never dropped: while
\* run_manufacturing_operations keeps being called and time advances, every
\* accepted job reaches production_history, completed or failed in quality
\* control, unless the clock reaches its bound with the job still queued or
\* active.
C30_QueuedJobsFinish ==
  \A n \in 1..MaxJobs :
    (mfg_created >= n)
      ~> (\/ HoldsJob(production_history, n)
          \/ /\ now = MaxTime
             /\ HoldsJob(production_queue \o active_production_jobs, n))

\* the queue after a run is what the run left of the queue before it: the jobs
\* promoted were the first ones
IsRestOf(after, before) ==
  \E k \in 0..Len(before) : after = SubSeq(before, k + 1, Len(before))

\* C31: run_processing_operations and run_manufacturing_operations promote
\* jobs from the head of the queue only: a job that cannot start stays at the
\* head and no job behind it is promoted in that call, even if its line is free.
C31_NoSkippingAhead ==
  [][/\ Called("run_manufacturing_operations")
          => IsRestOf(production_queue', production_queue)
     /\ Called("run_processing_operations")
          => \A p \in ProcIds : IsRestOf(processing_queue'[p], processing_queue[p])]_vars

\* a run left a job at the head whose line is busy, with a job behind it whose
\* line is free
C31_Witness ==
  /\ last_call.op = "run_manufacturing_operations"
  /\ Len(active_production_jobs) < Len(production_lines)
  /\ Len(production_queue) >= 2
  /\ \E i \in 1..Len(active_production_jobs) :
       LineOf(active_production_jobs[i]) = LineOf(production_queue[1])
  /\ \E j \in 2..Len(production_queue) :
       \A i \in 1..Len(active_production_jobs) :
         LineOf(active_production_jobs[i]) # LineOf(production_queue[j])

\* what the jobs among these jobs put out of material m
OutputOf(jobs, m, field) ==
  SumValues([i \in 1..Len(jobs) |->
               IF jobs[i][field] = m THEN jobs[i].actual_output_quantity ELSE 0],
            1..Len(jobs))

\* a run treats the active jobs by the clock: the jobs in due are moved from
\* the active set to the history once each, the others stay active as they are
CompletedByTheClock(active, due, done, active_after) ==
  /\ \A i \in 1..Len(done) :
       \E k \in due : active[k].created_at = done[i].created_at
  /\ \A k \in due :
       /\ Cardinality({i \in 1..Len(done) :
                         done[i].created_at = active[k].created_at}) = 1
       /\ \A j \in 1..Len(active_after) :
            active_after[j].created_at # active[k].created_at
  /\ \A k \in (1..Len(active)) \ due :
       \E j \in 1..Len(active_after) : active_after[j] = active[k]

\* C32: an active job is completed only by a run made at or after started_at
\* plus its processing or production time: that run removes it from the active
\* set, appends it to the history once and credits its output once; a run made
\* earlier leaves the job active and credits nothing.
C32_CompletedWhenDue ==
  [][/\ Called("run_processing_operations")
         => LET p == last_call'.agent
                active == active_processing_jobs[p]
                done == NewlyFinished(processing_history[p], processing_history'[p])
            IN /\ CompletedByTheClock(active,
                      {k \in 1..Len(active) : JobFinished(active[k])},
                      done, active_processing_jobs'[p])
               /\ \A m \in ProcessedMaterials :
                    processed_material_storage'[p][m]
                      = processed_material_storage[p][m]
                          + OutputOf(done, m, "expected_output_material")
     /\ Called("run_manufacturing_operations")
         => LET active == active_production_jobs
                done == NewlyFinished(production_history, production_history')
            IN /\ CompletedByTheClock(active,
                      {k \in 1..Len(active) : ProductionJobFinished(active[k])},
                      done, active_production_jobs')
               /\ \A m \in Products :
                    finished_goods_inventory'[m]
                      = finished_goods_inventory[m]
                          + OutputOf(done, m, "expected_output_product")
    ]_vars

\* C33: complete_shipment succeeds exactly for an order that is in
\* active_shipments, where process_shipments put it as dispatched; for any other
\* order id (unknown, still pending, already delivered) it returns False and
\* changes nothing; on success the order leaves active_shipments, its delivered
\* copy is appended to the history, and it is counted as on time exactly when
\* it is delivered no later than its estimated delivery time.
C33_DeliveredOnlyFromActive ==
  [][Called("complete_shipment")
       => LET order_id == last_call'.quantity
              known == {i \in 1..Len(active_shipments) :
                          active_shipments[i].order_id = order_id}
          IN /\ (last_call'.status = "True") <=> (known # {})
             /\ known = {} => UNCHANGED dist_vars
             /\ \A i \in known :
                  LET order == active_shipments[i]
                  IN /\ order.status = "dispatched"
                     /\ Len(active_shipments') = Len(active_shipments) - 1
                     /\ \A j \in 1..Len(active_shipments') :
                          active_shipments'[j].order_id # order_id
                     /\ shipment_history' =
                          Append(shipment_history,
                                 [order EXCEPT !.status = "delivered",
                                               !.delivered_at = now])
                     /\ on_time_deliveries' - on_time_deliveries =
                          IF now <= order.estimated_delivery_time THEN 1 ELSE 0
                     /\ UNCHANGED <<dist_pending_shipments, current_inventory>>
    ]_vars

\* an order was delivered after its estimated delivery time and not counted as
\* on time, and a second call for it was turned down
C33_Witness ==
  /\ last_call.op = "complete_shipment"
  /\ last_call.status = "False"
  /\ on_time_deliveries = 0
  /\ \E i \in 1..Len(shipment_history) :
       /\ shipment_history[i].status = "delivered"
       /\ shipment_history[i].order_id = last_call.quantity
       /\ shipment_history[i].delivered_at > shipment_history[i].estimated_delivery_time

\* C34: the operator request inject_raw_materials creates asks for no more
\* than the processing plant accepted: its quantity is at most what the plant
\* holds of the material in raw storage when the request is created, also when
\* the shipment was accepted in part.
C34_RequestWithinAccepted ==
  [][(Called("inject_raw_materials") /\ last_call'.status = "received")
       => LET request == pending_operator_requests'[Len(pending_operator_requests')]
          IN /\ Len(pending_operator_requests') = Len(pending_operator_requests) + 1
             /\ request.quantity
                  <= raw_material_storage'[request.agent_id][request.material_type]
    ]_vars

\* C35: the trace inject_raw_materials opens names the material the mine
\* extracted: its original_material and current_material are the ore whose
\* reserves the call reduced, also when the ore type asked for is not one of
\* the mine's ore types.
C35_TraceNamesExtractedOre ==
  [][(Called("inject_raw_materials")
      /\ Len(material_traces') = Len(material_traces) + 1)
       => LET trace == material_traces'[Len(material_traces')]
          IN \A ore \in OreTypes :
               ore_reserves'[ore] < ore_reserves[ore]
                 => /\ trace.original_material = ore
                    /\ trace.current_material = ore
    ]_vars

\* C36: a processing job consumes the input its recipe names: a successful
\* ProcessingAgent.process_material takes the batch out of the raw storage of
\* the selected recipe's input_material, also when the operator inputs are
\* omitted and the default recipe is used.
C36_JobConsumesRecipeInput ==
  [][(Called("ProcessingAgent.process_material") /\ last_call'.status = "success")
       => LET p == last_call'.agent
              input == transformation_recipes[last_call'.recipe].input_material
          IN /\ last_call'.quantity > 0
             /\ raw_material_storage'[p][input]
                  = raw_material_storage[p][input] - last_call'.quantity
    ]_vars

\* C37: a trace's material and quantity follow its journey: once
\* process_operator_request has logged the 'processed' step of the job it
\* queued, the trace's current_material and current_quantity are the job's
\* output material and expected output quantity, with or without a
\* manufacturing route for that material
C37_TraceFollowsProcessing ==
  [][(Called("process_operator_request") /\ last_call'.status = "success")
       => LET found == FindRequest(pending_operator_requests,
                                   last_call'.request_id)
              t == pending_operator_requests[found].trace_id
              job == C16_NewJob(last_call'.agent)
              log == JourneyLog(material_traces', t)
          IN (\E i \in 1..Len(log) :
                /\ i > Len(JourneyLog(material_traces, t))
                /\ log[i].operation = "processed")
               => /\ material_traces'[t].current_material
                       = job.expected_output_material
                  /\ material_traces'[t].current_quantity
                       = job.expected_output_quantity]_vars

\* C38: calculate_order_price takes the quantity discount of the order's
\* tier off the price left by the strategy and customer multipliers: 10% for
\* more than 500 units, 5% for more than 100 and at most 500, none for 100
\* or fewer
C38_QuantityDiscountTiers ==
  [][Called("calculate_order_price")
       => LET quantity == last_call'.quantity
              tier == IF quantity > 500 THEN 90
                      ELSE IF quantity > 100 THEN 95 ELSE 100
          IN last_call'.price =
               (last_call'.base_price
                  * StrategyMultiplier(last_call'.pricing_strategy, quantity)
                  * CustomerMultiplier(last_call'.customer_type)
                  * (tier \div 5) + 100000) \div 200000]_vars


============================================================================
